---- MODULE Spec2Model ----
(***************************************************************************)
(* A model of the AMR quad/oct-tree engine (src/src/node.py, mesh.py,      *)
(* scheme.py, refinement.py).                                              *)
(*                                                                         *)
(* A Node object is identified by its path from the root: the sequence of  *)
(* the children-map keys that lead to it.  The heap of nodes owned by the  *)
(* mesh is the function `tree`, path -> the node's fields.  Values are     *)
(* exact rationals <<numerator, denominator>> in lowest terms; absolute    *)
(* origins are fixed-point numbers in units of 2^-MaxLevel.                *)
(***************************************************************************)
EXTENDS Integers, Sequences, FiniteSets, TLC

VARIABLES
    tree,   \* Mesh._root and everything below it: path -> node fields
    op,     \* the last public operation called: its name, the node it was called
            \* on and whether that node was a leaf then
    err,    \* the exception the last operation raised, "none" if it returned
    calls   \* how many operations have been called

vars == <<tree, op, err, calls>>

----------------------------------------------------------------------------
(* Bounds of the model *)

\* the fixed-point resolution of absolute origins: no node is deeper than this
MaxLevel == 4

\* how many operations one behaviour of Spec calls
MaxCalls == 3

\* the largest n Mesh.uniform is called with in Spec
MaxUniform == 3

\* Node.refine is called directly on nodes above this level only
MaxDirectLevel == 2

\* the largest min_depth and max_depth Mesh.refine is called with in Spec
MaxDepth == 2

\* how many nodes a criterion of Spec flags
MaxFlag == 1

----------------------------------------------------------------------------
(* Exact arithmetic on rationals <<n, d>>, d > 0, in lowest terms *)

Abs(x) == IF x < 0 THEN -x ELSE x

RECURSIVE Gcd(_, _)
Gcd(a, b) == IF b = 0 THEN a ELSE Gcd(b, a % b)

Rat(n, d) ==
    LET g == Gcd(Abs(n), Abs(d))
        s == IF d < 0 THEN -1 ELSE 1
    IN  <<(s * n) \div g, (s * d) \div g>>

RInt(n) == <<n, 1>>
RAdd(a, b) ==
    LET g == Gcd(a[2], b[2])
    IN  Rat(a[1] * (b[2] \div g) + b[1] * (a[2] \div g), (a[2] \div g) * b[2])
RSub(a, b) == RAdd(a, <<-b[1], b[2]>>)
RMul(a, b) == Rat(a[1] * b[1], a[2] * b[2])
RDiv(a, b) == Rat(a[1] * b[2], a[2] * b[1])
RLess(a, b) == a[1] * b[2] < b[1] * a[2]

\* a * b and a / b (b # 0) with the common factors taken out before the
\* products are formed
RTimes(a, b) ==
    LET g == Gcd(Abs(a[1]), b[2])
        h == Gcd(Abs(b[1]), a[2])
    IN  <<(a[1] \div g) * (b[1] \div h), (a[2] \div h) * (b[2] \div g)>>
RQuotient(a, b) == RTimes(a, IF b[1] < 0 THEN <<-b[2], -b[1]>> ELSE <<b[2], b[1]>>)

\* a / b < c / d for b > 0 and d > 0, by the integer parts and then the
\* remainders, without a product
RECURSIVE FractionBelow(_, _, _, _)
FractionBelow(a, b, c, d) ==
    IF a \div b # c \div d THEN a \div b < c \div d
    ELSE IF c % d = 0 THEN FALSE
    ELSE IF a % b = 0 THEN TRUE
    ELSE FractionBelow(d, c % d, b, a % b)
RBelow(a, b) == FractionBelow(a[1], a[2], b[1], b[2])

RECURSIVE Pow2(_)
Pow2(k) == IF k = 0 THEN 1 ELSE 2 * Pow2(k - 1)

\* reduce(lambda res, c: res + c, values, 0.0)
RECURSIVE RSum(_)
RSum(s) == IF s = <<>> THEN RInt(0) ELSE RAdd(RSum(SubSeq(s, 1, Len(s) - 1)), s[Len(s)])

Range(s) == {s[i] : i \in DOMAIN s}

\* "for item in items: st = Body(st, item)".  The items are split in halves and
\* st is evaluated on entry (<<st>> is never empty), so that the evaluation
\* nests to a depth logarithmic in the number of items.
RECURSIVE ForEach(_, _, _)
ForEach(Body(_, _), st, items) ==
    IF items = <<>> \/ <<st>> = <<>> THEN st
    ELSE IF Len(items) = 1 THEN Body(st, items[1])
    ELSE LET half == Len(items) \div 2
         IN  ForEach(Body, ForEach(Body, st, SubSeq(items, 1, half)),
                     SubSeq(items, half + 1, Len(items)))

----------------------------------------------------------------------------
(* Points, directions, None *)

\* the z coordinate of a two-dimensional point (Python's None)
NoZ == 0 - 1

\* Python's None where a Node is expected: no path has this shape
None == << <<NoZ, NoZ, NoZ>> >>

Direction == {"RIGHT", "LEFT", "UP", "DOWN"}

\* the path of the root node
Root == <<>>

Child(p, key) == Append(p, key)

----------------------------------------------------------------------------
(* Node *)

IsTriDimensional(origin) == origin[3] # NoZ

\* Node._compute_absolute_origin with the parent's absolute origin left out:
\* the variant the tiling C7 is tested against
AbsoluteOriginNoParent(t, level, origin, parent) ==
    LET level_scale == Pow2(MaxLevel) \div Pow2(level)
    IN  <<origin[1] * level_scale, origin[2] * level_scale,
          IF IsTriDimensional(origin) THEN origin[3] * level_scale ELSE NoZ>>

\* Node._compute_absolute_origin with the origin not scaled by 2^-level:
\* the variant the bounds C8 are tested against
AbsoluteOriginUnscaled(t, level, origin, parent) ==
    LET unit == Pow2(MaxLevel)
        parent_origin == IF parent = None THEN <<0, 0, 0>> ELSE t[parent].absolute_origin
    IN  <<origin[1] * unit + parent_origin[1],
          origin[2] * unit + parent_origin[2],
          IF IsTriDimensional(origin) THEN origin[3] * unit + parent_origin[3] ELSE NoZ>>

\* Node._compute_absolute_origin, in units of 2^-MaxLevel
ComputeAbsoluteOrigin(t, level, origin, parent) ==
    LET unit == Pow2(MaxLevel)
        level_scale == unit \div Pow2(level)
    IN  IF parent = None
        THEN <<origin[1] * unit, origin[2] * unit,
               IF IsTriDimensional(origin) THEN origin[3] * unit ELSE NoZ>>
        ELSE LET parent_origin == t[parent].absolute_origin
             IN  <<origin[1] * level_scale + parent_origin[1],
                   origin[2] * level_scale + parent_origin[2],
                   IF IsTriDimensional(origin)
                   THEN origin[3] * level_scale + parent_origin[3]
                   ELSE NoZ>>

\* Node.__init__
Node(t, value, level, origin, parent) ==
    [value |-> value, level |-> level, origin |-> origin, parent |-> parent,
     children |-> <<>>,
     absolute_origin |-> ComputeAbsoluteOrigin(t, level, origin, parent)]

\* Node.is_leaf
IsLeaf(t, p) == t[p].children = <<>>

\* dict.get on a node's children map: the child stored under `key`, or None
Get(t, p, key) == IF key \in Range(t[p].children) THEN Child(p, key) ELSE None

\* Node.neighbor's descent loop
RECURSIVE Descend(_, _, _, _)
Descend(t, neighbor_node, self_level, key) ==
    IF /\ neighbor_node # None
       /\ t[neighbor_node].level < self_level
       /\ ~IsLeaf(t, neighbor_node)
    THEN Descend(t, Get(t, neighbor_node, key), self_level, key)
    ELSE neighbor_node

\* Node.neighbor looking among the siblings only, without the climb to the
\* neighbor of the parent
NeighborAmongSiblings(t, p, direction) ==
    IF t[p].parent = None THEN None
    ELSE Get(t, t[p].parent,
             CASE direction = "RIGHT" -> <<t[p].origin[1] + 1, t[p].origin[2], NoZ>>
               [] direction = "LEFT"  -> <<t[p].origin[1] - 1, t[p].origin[2], NoZ>>
               [] direction = "UP"    -> <<t[p].origin[1], t[p].origin[2] - 1, NoZ>>
               [] direction = "DOWN"  -> <<t[p].origin[1], t[p].origin[2] + 1, NoZ>>)

\* Node.neighbor
RECURSIVE Neighbor(_, _, _)

\* Node.neighbor stopping at the neighbor of the parent, without the step down
\* to the child of that neighbor that faces the node
NeighborOfParent(t, p, direction) ==
    IF t[p].parent = None THEN None
    ELSE IF NeighborAmongSiblings(t, p, direction) # None
    THEN NeighborAmongSiblings(t, p, direction)
    ELSE Neighbor(t, t[p].parent, direction)

\* Node.neighbor taking, in the neighbor of the parent, the child with the
\* origin of the node itself instead of the child on the facing edge
NeighborUnmirrored(t, p, direction) ==
    IF t[p].parent = None THEN None
    ELSE IF NeighborAmongSiblings(t, p, direction) # None
    THEN NeighborAmongSiblings(t, p, direction)
    ELSE IF t[p].origin[IF direction \in {"RIGHT", "LEFT"} THEN 1 ELSE 2]
               # (IF direction \in {"RIGHT", "DOWN"} THEN 1 ELSE 0)
    THEN None
    ELSE IF Neighbor(t, t[p].parent, direction) = None THEN None
    ELSE IF IsLeaf(t, Neighbor(t, t[p].parent, direction))
    THEN Neighbor(t, t[p].parent, direction)
    ELSE Get(t, Neighbor(t, t[p].parent, direction), t[p].origin)

Neighbor(t, p, direction) ==
    IF t[p].parent = None THEN None
    ELSE
    LET x == t[p].origin[1]
        y == t[p].origin[2]
        parent == t[p].parent
        adjacent_origin ==
            CASE direction = "RIGHT" -> <<x + 1, y, NoZ>>
              [] direction = "LEFT"  -> <<x - 1, y, NoZ>>
              [] direction = "UP"    -> <<x, y - 1, NoZ>>
              [] direction = "DOWN"  -> <<x, y + 1, NoZ>>
        adjacent_node == Get(t, parent, adjacent_origin)
        at_parent_edge ==
            CASE direction = "RIGHT" -> x = 1
              [] direction = "LEFT"  -> x = 0
              [] direction = "UP"    -> y = 0
              [] direction = "DOWN"  -> y = 1
    IN  IF adjacent_node # None THEN adjacent_node
        ELSE IF ~at_parent_edge THEN None
        ELSE
        LET parent_neighbor == Neighbor(t, parent, direction)
            neighbor_x == CASE direction = "RIGHT" -> 0
                            [] direction = "LEFT"  -> 1
                            [] OTHER -> x
            neighbor_y == CASE direction = "UP"   -> 1
                            [] direction = "DOWN" -> 0
                            [] OTHER -> y
            key == <<neighbor_x, neighbor_y, NoZ>>
        IN  IF parent_neighbor = None THEN None
            ELSE IF IsLeaf(t, parent_neighbor) THEN parent_neighbor
            ELSE Descend(t, Get(t, parent_neighbor, key), t[p].level, key)

\* Node.chain reducing from the last direction to the first
RECURSIVE ChainFromLast(_, _, _)
ChainFromLast(t, res, directions) ==
    IF directions = <<>> THEN res
    ELSE ChainFromLast(t,
                       IF res # None
                       THEN Neighbor(t, res, directions[Len(directions)])
                       ELSE None,
                       SubSeq(directions, 1, Len(directions) - 1))

\* Node.chain: reduce(lambda res, d: res.neighbor(d) if res else None, direction, self)
RECURSIVE Chain(_, _, _)
Chain(t, res, directions) ==
    IF directions = <<>> THEN res
    ELSE Chain(t,
               IF res # None THEN Neighbor(t, res, Head(directions)) ELSE None,
               Tail(directions))

\* [direction] * i
Repeat(direction, i) == [k \in 1..i |-> direction]

NotNone(node) == node # None

\* the inner loops of Node.buffer's helper: appendleft of node.chain(*[direction] * i)
RECURSIVE AppendLeftChains(_, _, _, _, _)
AppendLeftChains(t, node, directions, nn, buffered) ==
    IF directions = <<>> THEN buffered
    ELSE LET RECURSIVE Inner(_, _)
             Inner(i, acc) ==
                 IF i > nn THEN acc
                 ELSE Inner(i + 1, <<Chain(t, node, Repeat(Head(directions), i))>> \o acc)
         IN  AppendLeftChains(t, node, Tail(directions), nn, Inner(1, buffered))

\* Node.buffer's helper
RECURSIVE BufferHelper(_, _, _, _, _)
BufferHelper(t, node, nn, directions, neighbors) ==
    IF node = None THEN neighbors
    ELSE IF nn = 0 THEN <<node>> \o neighbors
    ELSE BufferHelper(t, Chain(t, node, directions), nn - 1, directions,
                      neighbors \o AppendLeftChains(t, node, directions, nn, <<node>>))

\* the cardinal part of Node.buffer
CardinalNeighbors(t, p, n) ==
    LET dirs == <<"RIGHT", "LEFT", "UP", "DOWN">>
        all == [k \in 1..(4 * n) |->
                   Chain(t, p, Repeat(dirs[((k - 1) \div n) + 1], ((k - 1) % n) + 1))]
    IN  SelectSeq(all, NotNone)

\* Node.buffer without the cardinal neighbors: the four diagonal quadrants only
BufferOfQuadrants(t, p, n) ==
    LET corner(res, directions) ==
            BufferHelper(t, Chain(t, p, directions), n - 1, directions, res)
        c1 == corner(<<>>, <<"RIGHT", "UP">>)
        c2 == corner(c1, <<"LEFT", "UP">>)
        c3 == corner(c2, <<"RIGHT", "DOWN">>)
        c4 == corner(c3, <<"LEFT", "DOWN">>)
    IN  SelectSeq(c4, NotNone)

\* Node.buffer
Buffer(t, p, n) ==
    LET corner(res, directions) ==
            BufferHelper(t, Chain(t, p, directions), n - 1, directions, res)
        c1 == corner(<<>>, <<"RIGHT", "UP">>)
        c2 == corner(c1, <<"LEFT", "UP">>)
        c3 == corner(c2, <<"RIGHT", "DOWN">>)
        c4 == corner(c3, <<"LEFT", "DOWN">>)
    IN  SelectSeq(c4 \o CardinalNeighbors(t, p, n), NotNone)

\* Node.leafs with the children of each node visited last to first
RECURSIVE LeafsLastFirst(_, _)
LeafsLastFirst(t, p) ==
    IF t[p].children = <<>> THEN <<p>>
    ELSE LET RECURSIVE Over(_)
             Over(keys) ==
                 IF keys = <<>> THEN <<>>
                 ELSE Over(Tail(keys)) \o LeafsLastFirst(t, Child(p, Head(keys)))
         IN  Over(t[p].children)

\* Node.leafs: depth first, children in the order of the children map
RECURSIVE Leafs(_, _)
Leafs(t, p) ==
    IF t[p].children = <<>> THEN <<p>>
    ELSE LET RECURSIVE Over(_)
             Over(keys) ==
                 IF keys = <<>> THEN <<>>
                 ELSE Leafs(t, Child(p, Head(keys))) \o Over(Tail(keys))
         IN  Over(t[p].children)

----------------------------------------------------------------------------
(* Node.refine and Node.coarsen *)

IsPrefix(p, q) == Len(p) <= Len(q) /\ SubSeq(q, 1, Len(p)) = p

\* the nodes strictly below p
Descendants(t, p) == {q \in DOMAIN t : IsPrefix(p, q) /\ q # p}

\* the children origins Node.refine creates, in creation order
Origins(origin) ==
    IF IsTriDimensional(origin)
    THEN [k \in 1..8 |-> <<(k - 1) \div 4, ((k - 1) \div 2) % 2, (k - 1) % 2>>]
    ELSE [k \in 1..4 |-> <<(k - 1) \div 2, (k - 1) % 2, NoZ>>]

\* the values of a node's children, in the order of the children map
ChildrenValues(t, p) == [i \in DOMAIN t[p].children |-> t[Child(p, t[p].children[i])].value]

\* reduce(lambda res, c: res + c.value, children.values(), 0.0) / len(children)
ChildrenMean(t, p) == RDiv(RSum(ChildrenValues(t, p)), RInt(Len(t[p].children)))

\* interpolate with the position of a child taken from the corner (0, 0) of
\* the parent instead of its centre
InterpolateFromCorner(t, parent, child_origin) ==
    LET value == t[parent].value
        right == Neighbor(t, parent, "RIGHT")
        left  == Neighbor(t, parent, "LEFT")
        up    == Neighbor(t, parent, "UP")
        down  == Neighbor(t, parent, "DOWN")
        dx0 == IF right # None /\ left # None
               THEN RDiv(RSub(t[right].value, t[left].value), RInt(2))
               ELSE IF right # None THEN RSub(t[right].value, value)
               ELSE IF left # None THEN RSub(value, t[left].value)
               ELSE RInt(0)
        dy0 == IF up # None /\ down # None
               THEN RDiv(RSub(t[down].value, t[up].value), RInt(2))
               ELSE IF up # None THEN RSub(t[up].value, value)
               ELSE IF down # None THEN RSub(value, t[down].value)
               ELSE RInt(0)
        dx == RMul(dx0, Rat(1, 10))
        dy == RMul(dy0, Rat(1, 10))
        delta_x == RAdd(RMul(RInt(child_origin[1]), Rat(1, 2)), Rat(1, 4))
        delta_y == RAdd(RMul(RInt(child_origin[2]), Rat(1, 2)), Rat(1, 4))
    IN  RAdd(RAdd(value, RMul(delta_x, dx)), RMul(delta_y, dy))

\* the helper interpolate of Node.refine
Interpolate(t, parent, child_origin) ==
    LET value == t[parent].value
        right == Neighbor(t, parent, "RIGHT")
        left  == Neighbor(t, parent, "LEFT")
        up    == Neighbor(t, parent, "UP")
        down  == Neighbor(t, parent, "DOWN")
        dx0 == IF right # None /\ left # None
               THEN RDiv(RSub(t[right].value, t[left].value), RInt(2))
               ELSE IF right # None THEN RSub(t[right].value, value)
               ELSE IF left # None THEN RSub(value, t[left].value)
               ELSE RInt(0)
        dy0 == IF up # None /\ down # None
               THEN RDiv(RSub(t[down].value, t[up].value), RInt(2))
               ELSE IF up # None THEN RSub(t[up].value, value)
               ELSE IF down # None THEN RSub(value, t[down].value)
               ELSE RInt(0)
        dx == RMul(dx0, Rat(1, 10))
        dy == RMul(dy0, Rat(1, 10))
        child_x == RAdd(RMul(RInt(child_origin[1]), Rat(1, 2)), Rat(1, 4))
        child_y == RAdd(RMul(RInt(child_origin[2]), Rat(1, 2)), Rat(1, 4))
        delta_x == RSub(child_x, Rat(1, 2))
        delta_y == RSub(child_y, Rat(1, 2))
    IN  RAdd(RAdd(value, RMul(delta_x, dx)), RMul(delta_y, dy))

\* children created at the level of their parent: the variant the child
\* completeness C6 is tested against
NewChildrenSameLevel(t, p, origins, values) ==
    [i \in DOMAIN origins |-> Node(t, values[i], t[p].level, origins[i], p)]

\* the children of a refined node: one Node per origin, at the next level
NewChildren(t, p, origins, values) ==
    [i \in DOMAIN origins |-> Node(t, values[i], t[p].level + 1, origins[i], p)]

\* Node.refine without its last statement, the node keeping the value it had:
\* the variant the mean C10 is tested against
RefineWithKeepValue(t, p, values) ==
    LET origins == Origins(t[p].origin)
        kids == NewChildren(t, p, origins, values)
        idx(q) == CHOOSE i \in DOMAIN origins : Child(p, origins[i]) = q
        new == {Child(p, origins[i]) : i \in DOMAIN origins}
        kept == DOMAIN t \ Descendants(t, p)
    IN  [q \in new |-> kids[idx(q)]]
           @@ (p :> [t[p] EXCEPT !.children = origins])
           @@ [q \in kept |-> t[q]]

\* Node.refine, given the values of the children (generated or interpolated):
\* the children map is replaced, then the node takes the mean of its children
RefineWith(t, p, values) ==
    LET origins == Origins(t[p].origin)
        kids == NewChildren(t, p, origins, values)
        idx(q) == CHOOSE i \in DOMAIN origins : Child(p, origins[i]) = q
        new == {Child(p, origins[i]) : i \in DOMAIN origins}
        kept == DOMAIN t \ Descendants(t, p)
        t1 == [q \in new |-> kids[idx(q)]]
                 @@ (p :> [t[p] EXCEPT !.children = origins])
                 @@ [q \in kept |-> t[q]]
    IN  [t1 EXCEPT ![p].value = ChildrenMean(t1, p)]

\* what number_generator() returns on its calls number k+1 .. k+n
Generate(gen, k, n) == [i \in 1..n |-> RInt(gen.start + gen.step * (k + i - 1))]

\* Node.refine(number_generator=gen), the generator having been called k times
RefineGenerated(t, p, gen, k) ==
    RefineWith(t, p, Generate(gen, k, Len(Origins(t[p].origin))))

\* Node.refine() without a generator: the children are interpolated
Refine(t, p) ==
    LET origins == Origins(t[p].origin)
    IN  RefineWith(t, p, [i \in DOMAIN origins |-> Interpolate(t, p, origins[i])])

\* Node.coarsen taking the value of the first child instead of the mean:
\* the variant the mean C9 is tested against
CoarsenFirstChild(t, p) ==
    IF t[p].children = <<>> THEN t
    ELSE (p :> [t[p] EXCEPT !.value = t[Child(p, t[p].children[1])].value,
                            !.children = <<>>])
            @@ [q \in DOMAIN t \ Descendants(t, p) |-> t[q]]

\* Node.coarsen; on a node that is no longer in the tree it changes nothing in
\* the tree
Coarsen(t, p) ==
    IF p \notin DOMAIN t THEN t
    ELSE IF t[p].children = <<>> THEN t
    ELSE (p :> [t[p] EXCEPT !.value = ChildrenMean(t, p), !.children = <<>>])
            @@ [q \in DOMAIN t \ Descendants(t, p) |-> t[q]]

----------------------------------------------------------------------------
(* Refinement criteria and the eligibility tests of Node *)

\* RefinementCriterium.eval for the custom criteria: a predicate on the node
Eval(criterium, t, p) ==
    CASE criterium.kind = "always" -> TRUE
      [] criterium.kind = "never"  -> FALSE
      [] criterium.kind = "flag"   -> p \in criterium.flagged
      [] criterium.kind = "above"  -> RLess(criterium.threshold, t[p].value)

\* CustomRefinementCriterium(lambda node: True) of Mesh.refine
BypassCriterium == [kind |-> "always"]

\* Node.shall_refine without the first test, "if not criterium.eval(self)"
ShallRefineByGrading(t, p, criterium) ==
    LET next_level == t[p].level + 1
    IN  \A direction \in Direction :
           LET neighbor == Neighbor(t, p, direction)
           IN  ~(neighbor # None /\ Abs(t[neighbor].level - next_level) > 1)

\* Node.shall_refine refusing any difference between the level of a neighbor
\* and the level the node would have
ShallRefineNoDifference(t, p, criterium) ==
    /\ Eval(criterium, t, p)
    /\ \A direction \in Direction :
           LET neighbor == Neighbor(t, p, direction)
           IN  ~(neighbor # None /\ Abs(t[neighbor].level - (t[p].level + 1)) > 0)

\* Node.shall_refine with the level of the node in place of next_level
ShallRefineAtLevel(t, p, criterium) ==
    /\ Eval(criterium, t, p)
    /\ \A direction \in Direction :
           LET neighbor == Neighbor(t, p, direction)
           IN  ~(neighbor # None /\ Abs(t[neighbor].level - t[p].level) > 1)

\* Node.shall_refine
ShallRefine(t, p, criterium) ==
    /\ Eval(criterium, t, p)
    /\ LET next_level == t[p].level + 1
       IN  \A direction \in Direction :
              LET neighbor == Neighbor(t, p, direction)
              IN  ~(neighbor # None /\ Abs(t[neighbor].level - next_level) > 1)

\* no level: what finest_neighbor_level returns for a missing neighbor
NoLevel == 0 - 1

\* the two children of a neighbor on the edge facing the node
ClosestChildren(direction) ==
    CASE direction = "RIGHT" -> << <<0, 0, NoZ>>, <<0, 1, NoZ>> >>
      [] direction = "LEFT"  -> << <<1, 0, NoZ>>, <<1, 1, NoZ>> >>
      [] direction = "UP"    -> << <<0, 1, NoZ>>, <<1, 1, NoZ>> >>
      [] direction = "DOWN"  -> << <<0, 0, NoZ>>, <<1, 0, NoZ>> >>

\* finest_neighbor_level without the descent to the children of the neighbor
NeighborLevel(t, p, direction) ==
    LET neighbor == Neighbor(t, p, direction)
    IN  IF neighbor = None THEN NoLevel ELSE t[neighbor].level

\* finest_neighbor_level of Node.shall_coarsen
FinestNeighborLevel(t, p, direction) ==
    LET neighbor == Neighbor(t, p, direction)
        closest_children == [i \in 1..2 |-> Child(neighbor, ClosestChildren(direction)[i])]
    IN  IF neighbor = None THEN NoLevel
        ELSE IF IsLeaf(t, neighbor) THEN t[neighbor].level
        ELSE IF ~(\A i \in 1..2 : IsLeaf(t, closest_children[i]))
             THEN t[closest_children[1]].level + 1
             ELSE t[closest_children[1]].level

\* Node.shall_coarsen
ShallCoarsen(t, p, criterium) ==
    /\ \A direction \in Direction :
          LET neighbor == FinestNeighborLevel(t, p, direction)
          IN  \/ neighbor = NoLevel
              \/ neighbor = 0
              \/ ~(Abs(neighbor - t[p].level) > 1)
    /\ ~Eval(criterium, t, p)

----------------------------------------------------------------------------
(* Mesh *)

\* a mesh whose _root is None
EmptyMesh == [q \in {} |-> {}]

HasRoot(t) == Root \in DOMAIN t

\* Mesh.create_root: a level-0 node with the origin as given
CreateRootTree(value, origin) ==
    [q \in {Root} |-> Node(EmptyMesh, value, 0, origin, None)]

RECURSIVE BitAnd(_, _)
BitAnd(a, b) ==
    IF a = 0 \/ b = 0 THEN 0
    ELSE (a % 2) * (b % 2) + 2 * BitAnd(a \div 2, b \div 2)

\* n & (n - 1) on Python integers, n >= 0 (for n = 0 this is 0 & -1 = 0)
AndWithPredecessor(n) == IF n = 0 THEN 0 ELSE BitAnd(n, n - 1)

\* int.bit_length
RECURSIVE BitLength(_)
BitLength(n) == IF n = 0 THEN 0 ELSE 1 + BitLength(n \div 2)

\* new_to_refine.extend(node.children.values())
ChildrenPaths(t, p) == [i \in DOMAIN t[p].children |-> Child(p, t[p].children[i])]

\* the inner loop of Mesh.uniform: every node of to_refine is refined with the
\* generator, which has been called k times so far
UniformRound(t, to_refine, new_to_refine, gen, k) ==
    LET RoundBody(st, node) ==
            LET t1 == RefineGenerated(st.t, node, gen, st.k)
            IN  [t |-> t1,
                 new_to_refine |-> st.new_to_refine \o ChildrenPaths(t1, node),
                 k |-> st.k + Len(t1[node].children)]
    IN  ForEach(RoundBody, [t |-> t, new_to_refine |-> new_to_refine, k |-> k],
                to_refine)

\* the while loop of Mesh.uniform
RECURSIVE UniformLoop(_, _, _, _, _)
UniformLoop(t, to_refine, n_refinements, gen, k) ==
    IF ~(n_refinements > 0) THEN t
    ELSE LET round == UniformRound(t, to_refine, <<>>, gen, k)
         IN  UniformLoop(round.t, round.new_to_refine, n_refinements - 1, gen, round.k)

\* Mesh.uniform: the mesh and the maximal leaf level, or ValueError
UniformResult(n, gen, tri) ==
    IF AndWithPredecessor(n) # 0
    THEN [err |-> "ValueError", t |-> EmptyMesh, level |-> 0]
    ELSE LET n_refinements == BitLength(n) - 1
             origin == <<0, 0, IF tri THEN 0 ELSE NoZ>>
         IN  [err |-> "none",
              t |-> UniformLoop(CreateRootTree(RInt(0), origin), <<Root>>, n_refinements,
                               gen, 0),
              level |-> n_refinements]

\* the radius of the buffer zone Mesh.refine refines around a flagged leaf
BufferRadius == 4

\* Pass 1 of Mesh.refine, the body of the loop over leaf.buffer(4) without the
\* refinement of the buffer node: the parent is kept from coarsening, nothing
\* else
KeepBufferNode(st, leaf, node, max_depth) ==
    [st EXCEPT !.neighbors = @ \cup {st.t[node].parent}]

\* Pass 1 of Mesh.refine, the body of the loop over leaf.buffer(4)
RefineBufferNode(st, leaf, node, max_depth) ==
    LET t == st.t
    IN  IF /\ t[leaf].level < max_depth
           /\ IsLeaf(t, node)
           /\ t[node].level < max_depth
           /\ ShallRefine(t, node, BypassCriterium)
        THEN [st EXCEPT !.neighbors = @ \cup {node},
                        !.t = Refine(t, node),
                        !.refined = Append(@, node)]
        ELSE [st EXCEPT !.neighbors = @ \cup {t[node].parent}]

\* Pass 1 of Mesh.refine, the loop over leaf.buffer(4)
RefineBuffer(st, leaf, nodes, max_depth) ==
    LET BufferBody(s, node) == RefineBufferNode(s, leaf, node, max_depth)
    IN  ForEach(BufferBody, st, nodes)

\* the end of the body of the loop over the leaves without the test of the
\* level against max_depth
MarkToRefineAtAnyLevel(st, leaf, criterium, max_depth) ==
    IF ShallRefine(st.t, leaf, criterium)
    THEN [st EXCEPT !.to_refine = @ \cup {leaf}]
    ELSE st

\* Pass 1 of Mesh.refine, the end of the body of the loop over the leaves:
\* "if leaf.shall_refine(criterium) and leaf.level < max_depth"
MarkToRefine(st, leaf, criterium, max_depth) ==
    IF ShallRefine(st.t, leaf, criterium) /\ st.t[leaf].level < max_depth
    THEN [st EXCEPT !.to_refine = @ \cup {leaf}]
    ELSE st

\* Pass 1 of Mesh.refine, the body of the loop over the leaves
PassOneLeaf(st, leaf, criterium, max_depth) ==
    IF ~Eval(criterium, st.t, leaf) THEN st
    ELSE MarkToRefine(RefineBuffer(st, leaf, Buffer(st.t, leaf, BufferRadius), max_depth),
                      leaf, criterium, max_depth)

\* Pass 1 of Mesh.refine, the loop over the leaves
PassOneLoop(st, leaves, criterium, max_depth) ==
    LET LeafBody(s, leaf) == PassOneLeaf(s, leaf, criterium, max_depth)
    IN  ForEach(LeafBody, st, leaves)

\* node.refine() on a node of to_refine
RefineOne(st, node) ==
    [st EXCEPT !.t = Refine(st.t, node),
               !.refined = Append(@, node),
               !.rerefined = @ \cup (IF IsLeaf(st.t, node) THEN {} ELSE {node})]

\* Pass 1 of Mesh.refine, "for node in to_refine: node.refine()"
RefineAll(st, nodes) == ForEach(RefineOne, st, nodes)

\* Pass 1 of Mesh.refine, the nodes of to_refine.  The code iterates a set, in
\* an order it does not fix; here the order is that of the leaves.  A
\* refinement reads the values of nodes at the level of the refined node or
\* above and leaves the value of the refined node as it is, so no order gives
\* another tree.
ToRefine(st, leaves) ==
    LET InToRefine(node) == node \in st.to_refine
    IN  SelectSeq(leaves, InToRefine)

\* Pass 1 of Mesh.refine, from the state the loop over the leaves ends in
PassOneEnd(st, leaves) == RefineAll(st, ToRefine(st, leaves))

\* the state Pass 1 of Mesh.refine starts in
PassOneStart(t) ==
    [t |-> t, to_refine |-> {}, neighbors |-> {}, refined |-> <<>>, rerefined |-> {}]

\* Pass 1 of Mesh.refine on the leaves of the mesh
PassOneOn(t, leaves, criterium, max_depth) ==
    PassOneEnd(PassOneLoop(PassOneStart(t), leaves, criterium, max_depth), leaves)

\* Pass 1 of Mesh.refine
PassOne(t, criterium, max_depth) == PassOneOn(t, Leafs(t, Root), criterium, max_depth)

\* Pass 2 of Mesh.refine: the keys of parent_children, in insertion order
ParentKeys(t, leaves, protected, keys) ==
    LET KeyBody(ks, leaf) ==
            LET parent == t[leaf].parent
            IN  IF parent \notin protected /\ parent \notin Range(ks)
                THEN Append(ks, parent) ELSE ks
    IN  ForEach(KeyBody, keys, leaves)

\* Pass 2 of Mesh.refine: parent_children[parent]
ChildrenOf(t, leaves, parent) ==
    LET HasParent(leaf) == t[leaf].parent = parent
    IN  SelectSeq(leaves, HasParent)

\* the test on the children of a parent of parent_children without their
\* number: some leaf has the parent
SomeChildrenLeaves(t, children, parent) ==
    /\ \A i \in DOMAIN children : IsLeaf(t, children[i])
    /\ Len(children) > 0

\* Pass 2 of Mesh.refine: whether the children of a parent of parent_children
\* are all leaves and as many as a refinement creates
AllChildrenLeaves(t, children, parent) ==
    /\ \A i \in DOMAIN children : IsLeaf(t, children[i])
    /\ Len(children) = (IF IsTriDimensional(t[parent].origin) THEN 8 ELSE 4)

\* whether a parent of parent_children goes to to_coarsen, without the test of
\* its level against min_depth
CoarsenCandidateAtAnyLevel(t, leaves, parent, criterium, min_depth) ==
    /\ AllChildrenLeaves(t, ChildrenOf(t, leaves, parent), parent)
    /\ ShallCoarsen(t, parent, criterium)

\* Pass 2 of Mesh.refine: whether a parent of parent_children goes to to_coarsen
CoarsenCandidate(t, leaves, parent, criterium, min_depth) ==
    /\ AllChildrenLeaves(t, ChildrenOf(t, leaves, parent), parent)
    /\ ShallCoarsen(t, parent, criterium)
    /\ t[parent].level >= min_depth

\* Pass 2 of Mesh.refine: to_coarsen, in the order of parent_children
ToCoarsen(t, leaves, keys, criterium, min_depth) ==
    LET IsCandidate(parent) == CoarsenCandidate(t, leaves, parent, criterium, min_depth)
    IN  SelectSeq(keys, IsCandidate)

CoarsenAll(t, nodes) == ForEach(Coarsen, t, nodes)

\* Pass 2 of Mesh.refine, "for node in to_coarsen: node.coarsen()"
PassTwoEnd(one, leaves, to_coarsen) ==
    [err |-> "none", t |-> CoarsenAll(one.t, to_coarsen), one |-> one,
     leaves |-> leaves, to_coarsen |-> to_coarsen]

\* Pass 2 of Mesh.refine, the loop over parent_children: when a leaf has no
\* parent, the key None is in parent_children and parent._is_tri_dimensional
\* raises
PassTwoKeys(one, leaves, keys, criterium, min_depth) ==
    IF None \in Range(keys)
    THEN [err |-> "AttributeError", t |-> one.t, one |-> one, leaves |-> leaves,
          to_coarsen |-> <<>>]
    ELSE PassTwoEnd(one, leaves, ToCoarsen(one.t, leaves, keys, criterium, min_depth))

\* Pass 2 of Mesh.refine on the leaves the mesh has after Pass 1
PassTwoOn(one, leaves, criterium, min_depth) ==
    PassTwoKeys(one, leaves,
                ParentKeys(one.t, leaves, one.to_refine \cup one.neighbors, <<>>),
                criterium, min_depth)

\* Pass 2 of Mesh.refine without "leaves = list(self.leafs())": on those leaves
\* of the list of Pass 1 that are leaves still
PassTwoOnOldLeaves(one, criterium, min_depth) ==
    LET Old(leaf) == one.t[leaf].parent \notin Range(one.refined)
    IN  PassTwoOn(one, SelectSeq(Leafs(one.t, Root), Old), criterium, min_depth)

\* Pass 2 of Mesh.refine
PassTwo(one, criterium, min_depth) ==
    PassTwoOn(one, Leafs(one.t, Root), criterium, min_depth)

\* Mesh.refine on a mesh with a root
RefineMesh(t, criterium, min_depth, max_depth) ==
    PassTwo(PassOne(t, criterium, max_depth), criterium, min_depth)

\* what one Mesh.refine call did: the sets and the tree Pass 1 ends with, the
\* nodes Node.refine was called on (in the order of the calls; rerefined holds
\* those that were no leaves at the call), the leaves Pass 2 enumerated and
\* the parents it coarsened
RefineTrace(r) ==
    [to_refine |-> r.one.to_refine, neighbors |-> r.one.neighbors,
     refined |-> r.one.refined, rerefined |-> r.one.rerefined,
     after_pass_one |-> r.one.t, leaves |-> r.leaves, to_coarsen |-> r.to_coarsen]

----------------------------------------------------------------------------
(* NumericalScheme, Node.inject *)

\* the loop body of apply with Neumann boundaries, a missing neighbor
\* contributing the value of the node: the variant the skipping of the
\* boundary C4 is tested against
ApplyNodeNeumann(t, node, copy_value, scheme) ==
    LET ValueAt(direction) ==
            LET n == Neighbor(t, node, direction)
            IN  IF n = None THEN copy_value ELSE t[n].value
        two == RMul(RInt(2), copy_value)
        term1 == RDiv(RAdd(RSub(ValueAt("RIGHT"), two), ValueAt("LEFT")),
                      RMul(scheme.d1, scheme.d1))
        term2 == RDiv(RAdd(RSub(ValueAt("UP"), two), ValueAt("DOWN")),
                      RMul(scheme.d2, scheme.d2))
        laplacian_term == RMul(RAdd(term1, term2), scheme.laplacian_factor)
    IN  [t EXCEPT ![node].value = RAdd(copy_value, laplacian_term)]

\* SecondOrderCenteredFiniteDifferences.apply, the body of the loop for one
\* (node, node_copy) pair: node_copy carries the value, level, origin and parent
\* the node had when apply started, so node_copy.neighbor looks the neighbors up
\* in the live tree
ApplyNode(t, node, copy_value, scheme) ==
    LET right == Neighbor(t, node, "RIGHT")
        left  == Neighbor(t, node, "LEFT")
        up    == Neighbor(t, node, "UP")
        down  == Neighbor(t, node, "DOWN")
        two == RMul(RInt(2), copy_value)
        term1 == RDiv(RAdd(RSub(t[right].value, two), t[left].value),
                      RMul(scheme.d1, scheme.d1))
        term2 == RDiv(RAdd(RSub(t[up].value, two), t[down].value),
                      RMul(scheme.d2, scheme.d2))
        laplacian_term == RMul(RAdd(term1, term2), scheme.laplacian_factor)
    IN  IF right = None \/ left = None \/ up = None \/ down = None
        THEN t
        ELSE [t EXCEPT ![node].value = RAdd(copy_value, laplacian_term)]

\* "for node, node_copy in zip(nodes, nodes_copy)"
ApplyLoop(t, nodes, nodes_copy, scheme) ==
    LET ApplyBody(tt, i) == ApplyNode(tt, nodes[i], nodes_copy[i], scheme)
    IN  ForEach(ApplyBody, t, [i \in DOMAIN nodes |-> i])

\* apply followed by a restriction: every parent of leaves takes the mean of
\* its children
ApplyAndRestrict(t, nodes, scheme) ==
    LET applied == ApplyLoop(t, nodes, [i \in DOMAIN nodes |-> t[nodes[i]].value], scheme)
        Restricted(q) ==
            IF \A i \in DOMAIN applied[q].children :
                  IsLeaf(applied, Child(q, applied[q].children[i]))
            THEN [applied[q] EXCEPT !.value = ChildrenMean(applied, q)]
            ELSE applied[q]
    IN  [q \in DOMAIN applied |-> IF IsLeaf(applied, q) THEN applied[q] ELSE Restricted(q)]

\* SecondOrderCenteredFiniteDifferences.apply on a list of leaves
Apply(t, nodes, scheme) ==
    ApplyLoop(t, nodes, [i \in DOMAIN nodes |-> t[nodes[i]].value], scheme)

\* the functions handed to inject: each changes the value of the node it is given
InjectedValue(f, t, p) ==
    CASE f.kind = "double"    -> RMul(t[p].value, RInt(2))
      [] f.kind = "mark_leaf" -> IF IsLeaf(t, p) THEN RInt(1) ELSE RInt(0)
      [] f.kind = "set_leaf"  -> IF IsLeaf(t, p) THEN f.value ELSE t[p].value
      [] f.kind = "set_all"   -> f.value
      [] f.kind = "count_up"  -> IF t[p].parent = None THEN RInt(0)
                                 ELSE RAdd(t[t[p].parent].value, RInt(1))

\* Node.inject: f on the node, then inject on every child
\* Node.inject with f applied to the node after its children
RECURSIVE InjectChildrenFirst(_, _, _)
InjectChildrenFirst(t, p, f) ==
    LET InjectChild(tt, key) == InjectChildrenFirst(tt, Child(p, key), f)
        after == ForEach(InjectChild, t, t[p].children)
    IN  [after EXCEPT ![p].value = InjectedValue(f, after, p)]

RECURSIVE Inject(_, _, _)
Inject(t, p, f) ==
    LET InjectChild(tt, key) == Inject(tt, Child(p, key), f)
    IN  ForEach(InjectChild, [t EXCEPT ![p].value = InjectedValue(f, t, p)],
                t[p].children)

----------------------------------------------------------------------------
(* The public operations, on the mesh under observation *)

\* the value generators handed to Mesh.uniform and Node.refine: the k-th call
\* returns start + step * (k - 1)
Generators == {[start |-> 1, step |-> 0], [start |-> 1, step |-> 1]}

\* the origins Mesh.create_root is called with
RootOrigins == {<<0, 0, NoZ>>, <<0, 1, NoZ>>, <<0, 0, 0>>}

\* the subsets of S with at most k elements
RECURSIVE SmallSubsets(_, _)
SmallSubsets(S, k) ==
    IF k = 0 THEN {{}}
    ELSE LET smaller == SmallSubsets(S, k - 1)
         IN  smaller \cup {G \cup {x} : G \in smaller, x \in S}

\* the criteria Mesh.refine is called with: a predicate on the node
Criteria(t, max_flag) ==
    {[kind |-> "always"], [kind |-> "never"]}
    \cup {[kind |-> "flag", flagged |-> F] : F \in SmallSubsets(DOMAIN t, max_flag) \ {{}}}

Schemes == {[laplacian_factor |-> Rat(1, 4), d1 |-> RInt(1), d2 |-> RInt(1)]}

Injections == {[kind |-> "double"], [kind |-> "mark_leaf"]}

Called(name, node) == [name |-> name, node |-> node, leaf |-> FALSE]

\* a call that returned: ret is <<value>>, or << >> when the call raised
Returned(name, node, leaf, args, ret) ==
    [name |-> name, node |-> node, leaf |-> leaf, args |-> args, ret |-> ret]

\* a call of a Node method on the node p of the mesh t
CalledOn(name, t, p) == [name |-> name, node |-> p, leaf |-> IsLeaf(t, p)]

\* Mesh(lx, ly, lz): no root
Init ==
    /\ tree = EmptyMesh
    /\ op = Called("Mesh", None)
    /\ err = "none"
    /\ calls = 0

\* Mesh.uniform
MeshUniform ==
    /\ calls < MaxCalls
    /\ ~HasRoot(tree)
    /\ \E n \in 0..MaxUniform, gen \in Generators, tri \in BOOLEAN :
          LET r == UniformResult(n, gen, tri)
          IN  /\ tree' = IF r.err = "none" THEN r.t ELSE tree
              /\ err' = r.err
    /\ op' = Called("uniform", None)
    /\ calls' = calls + 1

\* Mesh.create_root
MeshCreateRoot ==
    /\ calls < MaxCalls
    /\ \E origin \in RootOrigins : tree' = CreateRootTree(RInt(2), origin)
    /\ err' = "none"
    /\ op' = Called("create_root", None)
    /\ calls' = calls + 1

\* Node.refine(), on any node of the tree
NodeRefine ==
    /\ calls < MaxCalls
    /\ \E p \in DOMAIN tree :
          /\ tree[p].level < MaxDirectLevel
          /\ IsTriDimensional(tree[p].origin) => tree[p].level = 0
          /\ tree' = Refine(tree, p)
          /\ op' = CalledOn("refine", tree, p)
    /\ err' = "none"
    /\ calls' = calls + 1

\* Node.refine(number_generator=gen), on any node of the tree
NodeRefineGenerated ==
    /\ calls < MaxCalls
    /\ \E p \in DOMAIN tree, gen \in Generators :
          /\ tree[p].level < MaxDirectLevel
          /\ IsTriDimensional(tree[p].origin) => tree[p].level = 0
          /\ tree' = RefineGenerated(tree, p, gen, 0)
          /\ op' = CalledOn("refine_generated", tree, p)
    /\ err' = "none"
    /\ calls' = calls + 1

\* Node.coarsen(), on any node of the tree
NodeCoarsen ==
    /\ calls < MaxCalls
    /\ \E p \in DOMAIN tree :
          /\ tree' = Coarsen(tree, p)
          /\ op' = CalledOn("coarsen", tree, p)
    /\ err' = "none"
    /\ calls' = calls + 1

\* Mesh.refine(criterium, min_depth, max_depth)
MeshRefine ==
    /\ calls < MaxCalls
    /\ IF ~HasRoot(tree)
       THEN tree' = tree /\ err' = "ValueError"
       ELSE \E criterium \in Criteria(tree, MaxFlag), min_depth \in 0..MaxDepth,
               max_depth \in 0..MaxDepth :
               LET r == RefineMesh(tree, criterium, min_depth, max_depth)
               IN  tree' = r.t /\ err' = r.err
    /\ op' = Called("Mesh.refine", None)
    /\ calls' = calls + 1

\* Mesh.solve(scheme)
MeshSolve ==
    /\ calls < MaxCalls
    /\ IF ~HasRoot(tree)
       THEN tree' = tree /\ err' = "ValueError"
       ELSE \E scheme \in Schemes :
               tree' = Apply(tree, Leafs(tree, Root), scheme) /\ err' = "none"
    /\ op' = Called("solve", None)
    /\ calls' = calls + 1

\* Mesh.inject(f)
MeshInject ==
    /\ calls < MaxCalls
    /\ IF ~HasRoot(tree)
       THEN tree' = tree /\ err' = "ValueError"
       ELSE \E f \in Injections : tree' = Inject(tree, Root, f) /\ err' = "none"
    /\ op' = Called("inject", None)
    /\ calls' = calls + 1

\* list(Mesh.leafs()) without the test for a root: no leaf of no root
LeafsUnchecked(t) ==
    [err |-> "none", ret |-> <<IF HasRoot(t) THEN Leafs(t, Root) ELSE <<>>>>]

\* list(Mesh.leafs()): the leaves in the order of the iteration, or ValueError
LeafsResult(t) ==
    IF ~HasRoot(t) THEN [err |-> "ValueError", ret |-> <<>>]
    ELSE [err |-> "none", ret |-> <<Leafs(t, Root)>>]

\* iterating Mesh.leafs()
MeshLeafs ==
    /\ calls < MaxCalls
    /\ tree' = tree
    /\ err' = LeafsResult(tree).err
    /\ op' = Returned("leafs", None, FALSE, <<>>, LeafsResult(tree).ret)
    /\ calls' = calls + 1

\* Mesh.save(filename): the file is written from the leaves and is no part of
\* the state of the mesh
MeshSave ==
    /\ calls < MaxCalls
    /\ tree' = tree
    /\ err' = IF ~HasRoot(tree) THEN "ValueError" ELSE "none"
    /\ op' = Called("save", None)
    /\ calls' = calls + 1

Next ==
    \/ MeshUniform
    \/ MeshCreateRoot
    \/ NodeRefine
    \/ NodeRefineGenerated
    \/ NodeCoarsen
    \/ MeshRefine
    \/ MeshSolve
    \/ MeshInject
    \/ MeshLeafs
    \/ MeshSave

Spec == Init /\ [][Next]_vars

----------------------------------------------------------------------------
(* The geometry of the leaves, from their absolute origins and levels *)

LeafSet(t) == Range(Leafs(t, Root))

\* the side of a node's cell, in units of 2^-MaxLevel
Side(t, p) == Pow2(MaxLevel) \div Pow2(t[p].level)

\* the intervals [a, a + la) and [b, b + lb) overlap on more than a point
Overlap(a, la, b, lb) == a < b + lb /\ b < a + la

\* the cells of a and b touch along a segment of positive length
ShareFace(t, a, b) ==
    LET oa == t[a].absolute_origin
        ob == t[b].absolute_origin
        sa == Side(t, a)
        sb == Side(t, b)
    IN  \/ /\ oa[1] + sa = ob[1] \/ ob[1] + sb = oa[1]
           /\ Overlap(oa[2], sa, ob[2], sb)
        \/ /\ oa[2] + sa = ob[2] \/ ob[2] + sb = oa[2]
           /\ Overlap(oa[1], sa, ob[1], sb)

\* 2:1 grading of a 2D mesh
Graded(t) ==
    \A a, b \in LeafSet(t) :
        ShareFace(t, a, b) => Abs(t[a].level - t[b].level) <= 1

----------------------------------------------------------------------------
(* Mesh.refine on a graded mesh with leaves on three levels *)

\* how many leaves a criterion of SpecDeep flags
MaxDeepFlag == 3

\* the min_depth SpecDeep calls Mesh.refine with
DeepMinDepth == 0

\* the smallest max_depth SpecDeep calls Mesh.refine with
MinDeepDepth == 3

\* the corner cells SpecDeep starts refined
DeepCells == {<<0, 1, NoZ>>, <<1, 0, NoZ>>}

\* Mesh.uniform(2), then Node.refine on the leaf `cell` and on its child `cell`
DeepTree(cell) ==
    LET uniform == UniformResult(2, [start |-> 1, step |-> 0], FALSE).t
    IN  Refine(Refine(uniform, <<cell>>), <<cell, cell>>)

InitDeep ==
    /\ \E cell \in DeepCells :
          /\ tree = DeepTree(cell)
          /\ op = Called("refine", <<cell, cell>>)
    /\ err = "none"
    /\ calls = 0

\* Mesh.refine with a criterion that accepts the flagged leaves only
DeepMeshRefine ==
    /\ calls = 0
    /\ \E flagged \in SmallSubsets(LeafSet(tree), MaxDeepFlag) \ {{}},
          max_depth \in MinDeepDepth..MaxLevel :
          LET r == RefineMesh(tree, [kind |-> "flag", flagged |-> flagged],
                              DeepMinDepth, max_depth)
          IN  /\ tree' = r.t
              /\ err' = r.err
              /\ op' = Returned("Mesh.refine", None, FALSE,
                                [criterium |-> [kind |-> "flag", flagged |-> flagged],
                                 min_depth |-> DeepMinDepth, max_depth |-> max_depth],
                                <<RefineTrace(r)>>)
    /\ calls' = calls + 1

NextDeep == DeepMeshRefine

SpecDeep == InitDeep /\ [][NextDeep]_vars

----------------------------------------------------------------------------
(* Mesh.solve on a 4 x 4 mesh, uniform or refined further *)

\* how many operations one behaviour of SpecSolve calls
MaxSolveCalls == 3

\* how many of them, the first ones, may be a Node.refine
MaxSolveRefines == 1

\* SpecSolve calls Mesh.uniform with n = 2^SolveUniformLevel
SolveUniformLevel == 2

\* the value the leaves are set to by the injection "set_leaf" of SpecSolve
SolveValue == 3

\* functions handed to Mesh.inject: the first sets the leaves alone to
\* SolveValue, the second sets the leaves to 1 and the other nodes to 0
SolveInjections == {[kind |-> "set_leaf", value |-> RInt(SolveValue)], [kind |-> "mark_leaf"]}

\* Mesh.uniform(2^SolveUniformLevel, gen)
InitSolve ==
    /\ \E gen \in Generators : tree = UniformResult(Pow2(SolveUniformLevel), gen, FALSE).t
    /\ op = Called("uniform", None)
    /\ err = "none"
    /\ calls = 0

\* Node.refine() on a leaf of the mesh
SolveNodeRefine ==
    /\ calls < MaxSolveCalls /\ calls < MaxSolveRefines
    /\ \E p \in LeafSet(tree) :
          /\ tree[p].level < MaxLevel
          /\ \E refined \in {r \in {Refine(tree, p)} : Graded(r)} :
                tree' = refined
          /\ op' = CalledOn("refine", tree, p)
    /\ err' = "none"
    /\ calls' = calls + 1

\* Mesh.inject(f)
SolveMeshInject ==
    /\ calls < MaxSolveCalls
    /\ \E f \in SolveInjections : tree' = Inject(tree, Root, f)
    /\ op' = Called("inject", None)
    /\ err' = "none"
    /\ calls' = calls + 1

\* Mesh.solve(scheme)
SolveMeshSolve ==
    /\ calls < MaxSolveCalls
    /\ \E scheme \in Schemes : tree' = Apply(tree, Leafs(tree, Root), scheme)
    /\ op' = Called("solve", None)
    /\ err' = "none"
    /\ calls' = calls + 1

NextSolve ==
    \/ SolveNodeRefine
    \/ SolveMeshInject
    \/ SolveMeshSolve

SpecSolve == InitSolve /\ [][NextSolve]_vars

----------------------------------------------------------------------------
(* Uniform meshes up to 8 x 8: Mesh.uniform, Node.buffer on a leaf, and      *)
(* Mesh.refine with a criterion that flags one leaf                          *)

\* how many operations one behaviour of SpecUniform calls
MaxWideCalls == 2

\* the largest n Mesh.uniform is called with in SpecUniform
MaxWideUniform == 8

\* the largest n Node.buffer is called with in SpecUniform
MaxBuffer == 3

\* the max_depth SpecUniform calls Mesh.refine with
WideMaxDepth == 5

\* Mesh.uniform(n, gen, lx, ly): a 2D mesh and its level
WideMeshUniform ==
    /\ calls < MaxWideCalls
    /\ ~HasRoot(tree)
    /\ \E n \in 0..MaxWideUniform, gen \in Generators :
          LET r == UniformResult(n, gen, FALSE)
          IN  /\ tree' = IF r.err = "none" THEN r.t ELSE tree
              /\ err' = r.err
              /\ op' = Returned("uniform", None, FALSE, [n |-> n, gen |-> gen],
                                IF r.err = "none" THEN <<r.level>> ELSE <<>>)
    /\ calls' = calls + 1

\* Node.buffer(n) on a leaf of the mesh
WideNodeBuffer ==
    /\ calls < MaxWideCalls
    /\ HasRoot(tree)
    /\ \E p \in LeafSet(tree), n \in 1..MaxBuffer :
          op' = Returned("buffer", p, TRUE, [n |-> n], <<Buffer(tree, p, n)>>)
    /\ tree' = tree
    /\ err' = "none"
    /\ calls' = calls + 1

\* Mesh.refine(criterium, min_depth=0, max_depth=5) with a criterium that flags
\* the leaf p and no other node
WideMeshRefine ==
    /\ calls < MaxWideCalls
    /\ IF ~HasRoot(tree)
       THEN /\ tree' = tree
            /\ err' = "ValueError"
            /\ op' = Returned("Mesh.refine", None, FALSE, [max_depth |-> WideMaxDepth],
                              <<>>)
       ELSE \E p \in LeafSet(tree) :
               LET r == RefineMesh(tree, [kind |-> "flag", flagged |-> {p}], 0,
                                   WideMaxDepth)
               IN  /\ tree' = r.t
                   /\ err' = r.err
                   /\ op' = Returned("Mesh.refine", p, TRUE,
                                     [max_depth |-> WideMaxDepth], <<>>)
    /\ calls' = calls + 1

NextUniform ==
    \/ WideMeshUniform
    \/ WideNodeBuffer
    \/ WideMeshRefine

SpecUniform == Init /\ [][NextUniform]_vars

----------------------------------------------------------------------------
(* The queries of Node (neighbor, chain, buffer, copy) on the nodes of small *)
(* meshes, uniform or refined further, graded or not                         *)

\* Node.refine is called on nodes above this level in SpecQuery
MaxQueryLevel == 3

\* the largest n Node.buffer is called with in SpecQuery
MaxQueryBuffer == 2

\* how many directions Node.chain is called with
MaxChain == 2

\* a query leaves the mesh as it is: it is the last call of its behaviour
QueryDone == MaxCalls + 1

\* the arguments of Node.chain
ChainDirections == UNION {[1..k -> Direction] : k \in 0..MaxChain}

\* Node.copy without the test for children
CopyUnchecked(t, p) ==
    [err |-> "none",
     ret |-> <<Node(t, t[p].value, t[p].level, t[p].origin, t[p].parent)>>]

\* Node.copy: a node that no children map holds, or ValueError
CopyResult(t, p) ==
    IF t[p].children # <<>> THEN [err |-> "ValueError", ret |-> <<>>]
    ELSE [err |-> "none",
          ret |-> <<Node(t, t[p].value, t[p].level, t[p].origin, t[p].parent)>>]

\* Node.refine() on a node of a 2D mesh, or on the root of a 3D mesh
QueryNodeRefine ==
    /\ calls < MaxCalls
    /\ \E p \in DOMAIN tree :
          /\ tree[p].level < MaxQueryLevel
          /\ IsTriDimensional(tree[p].origin) => tree[p].level = 0
          /\ tree' = Refine(tree, p)
          /\ op' = CalledOn("refine", tree, p)
    /\ err' = "none"
    /\ calls' = calls + 1

\* Node.neighbor(direction)
NodeNeighbor ==
    /\ calls <= MaxCalls
    /\ \E p \in DOMAIN tree, direction \in Direction :
          op' = Returned("neighbor", p, IsLeaf(tree, p), [direction |-> direction],
                         <<Neighbor(tree, p, direction)>>)
    /\ tree' = tree
    /\ err' = "none"
    /\ calls' = QueryDone

\* Node.chain(*directions)
NodeChain ==
    /\ calls <= MaxCalls
    /\ \E p \in DOMAIN tree, directions \in ChainDirections :
          op' = Returned("chain", p, IsLeaf(tree, p), [directions |-> directions],
                         <<Chain(tree, p, directions)>>)
    /\ tree' = tree
    /\ err' = "none"
    /\ calls' = QueryDone

\* Node.buffer(n)
NodeBuffer ==
    /\ calls <= MaxCalls
    /\ \E p \in DOMAIN tree, n \in 1..MaxQueryBuffer :
          op' = Returned("buffer", p, IsLeaf(tree, p), [n |-> n],
                         <<Buffer(tree, p, n)>>)
    /\ tree' = tree
    /\ err' = "none"
    /\ calls' = QueryDone

\* Node.copy()
NodeCopy ==
    /\ calls <= MaxCalls
    /\ \E p \in DOMAIN tree :
          /\ err' = CopyResult(tree, p).err
          /\ op' = Returned("copy", p, IsLeaf(tree, p), <<>>, CopyResult(tree, p).ret)
    /\ tree' = tree
    /\ calls' = QueryDone

\* the thresholds of the criteria "node.value > threshold" of SpecQuery
QueryThresholds == {RInt(1), RInt(2)}

\* the criteria Node.shall_refine and Node.shall_coarsen are called with on the
\* node p: every node, no node, this node, and the nodes with a value above a
\* threshold
QueryCriteria(p) ==
    {[kind |-> "always"], [kind |-> "never"], [kind |-> "flag", flagged |-> {p}]}
    \cup {[kind |-> "above", threshold |-> x] : x \in QueryThresholds}

\* node.shall_refine(criterium) on a node of the mesh
NodeShallRefine ==
    /\ calls <= MaxCalls
    /\ \E p \in DOMAIN tree :
          \E criterium \in QueryCriteria(p) :
             op' = Returned("shall_refine", p, IsLeaf(tree, p), [criterium |-> criterium],
                            <<ShallRefine(tree, p, criterium)>>)
    /\ tree' = tree
    /\ err' = "none"
    /\ calls' = QueryDone

\* node.shall_coarsen(criterium) on a node of the mesh
NodeShallCoarsen ==
    /\ calls <= MaxCalls
    /\ \E p \in DOMAIN tree :
          \E criterium \in QueryCriteria(p) :
             op' = Returned("shall_coarsen", p, IsLeaf(tree, p), [criterium |-> criterium],
                            <<ShallCoarsen(tree, p, criterium)>>)
    /\ tree' = tree
    /\ err' = "none"
    /\ calls' = QueryDone

\* the functions Node.inject is called with in SpecQuery: n.value *= 2,
\* n.value = 1 if n.is_leaf() else 0, and
\* n.value = n.parent.value + 1 if n.parent else 0
NodeInjections == Injections \cup {[kind |-> "count_up"]}

\* node.inject(f) on a node of the mesh; with the root it is Mesh.inject(f)
NodeInject ==
    /\ calls <= MaxCalls
    /\ \E p \in DOMAIN tree, f \in NodeInjections :
          /\ tree' = Inject(tree, p, f)
          /\ op' = Returned("inject", p, IsLeaf(tree, p), [f |-> f], <<>>)
    /\ err' = "none"
    /\ calls' = QueryDone

\* origins with a coordinate that is neither 0 nor 1: (2, 0, None), and the
\* (1, 1, 2) of test_octree_creation
BadOrigins == {<<2, 0, NoZ>>, <<1, 1, 2>>}

\* mesh.create_root(value, origin_x, origin_y, origin_z) on an empty mesh or on
\* a mesh that has a root, with any origin
MeshCreateRootAt ==
    /\ calls <= MaxCalls
    /\ \E origin \in RootOrigins \cup BadOrigins :
          /\ tree' = CreateRootTree(RInt(2), origin)
          /\ op' = Returned("create_root", Root, TRUE, [origin |-> origin], <<Root>>)
    /\ err' = "none"
    /\ calls' = QueryDone

\* list(node.leafs()) on a node of the mesh; with the root it is
\* list(mesh.leafs()). The enumeration may be repeated.
NodeLeafs ==
    /\ calls <= MaxCalls \/ op.name = "leafs"
    /\ \E p \in DOMAIN tree :
          op' = Returned("leafs", p, IsLeaf(tree, p), <<>>, <<Leafs(tree, p)>>)
    /\ tree' = tree
    /\ err' = "none"
    /\ calls' = QueryDone

NextQuery ==
    \/ NodeLeafs
    \/ MeshUniform
    \/ MeshCreateRootAt
    \/ NodeInject
    \/ NodeShallRefine
    \/ NodeShallCoarsen
    \/ MeshCreateRoot
    \/ QueryNodeRefine
    \/ NodeNeighbor
    \/ NodeChain
    \/ NodeBuffer
    \/ NodeCopy

SpecQuery == Init /\ [][NextQuery]_vars

----------------------------------------------------------------------------
(* Successive Mesh.refine calls on a 2D mesh, with the arguments of the call *)
(* and what its two passes did kept for inspection                          *)

\* how many operations one behaviour of SpecRefine calls: the Mesh.refine call
\* that is inspected is the last one
MaxRefineCalls == 3

\* the largest n Mesh.uniform is called with in SpecRefine
MaxRefineUniform == 2

\* the largest max_depth the last Mesh.refine of SpecRefine is called with
MaxRefineDepth == 3

\* Mesh.uniform(n, gen, lx, ly) with a counting generator
TracedMeshUniform ==
    /\ calls < MaxRefineCalls
    /\ ~HasRoot(tree)
    /\ \E n \in 0..MaxRefineUniform :
          LET r == UniformResult(n, [start |-> 1, step |-> 1], FALSE)
          IN  /\ tree' = IF r.err = "none" THEN r.t ELSE tree
              /\ err' = r.err
    /\ op' = Called("uniform", None)
    /\ calls' = calls + 1

\* Mesh.refine(criterium, min_depth, max_depth)
TracedMeshRefine ==
    /\ calls < MaxRefineCalls
    /\ IF ~HasRoot(tree)
       THEN /\ tree' = tree
            /\ err' = "ValueError"
            /\ op' = Called("Mesh.refine", None)
       ELSE \E criterium \in Criteria(tree, MaxFlag), min_depth \in 0..MaxDepth,
               max_depth \in 0..MaxRefineDepth :
               LET r == RefineMesh(tree, criterium, min_depth, max_depth)
               IN  /\ tree' = r.t
                   /\ err' = r.err
                   /\ op' = Returned("Mesh.refine", None, FALSE,
                                     [criterium |-> criterium, min_depth |-> min_depth,
                                      max_depth |-> max_depth],
                                     <<RefineTrace(r)>>)
    /\ calls' = MaxRefineCalls

\* a Mesh.refine call that another call follows
EarlierMeshRefine ==
    /\ calls + 1 < MaxRefineCalls
    /\ MeshRefine

NextRefine ==
    \/ TracedMeshUniform
    \/ EarlierMeshRefine
    \/ TracedMeshRefine

SpecRefine == Init /\ [][NextRefine]_vars

----------------------------------------------------------------------------
(* GradientRefinementCriterium and LogScaleGradientRefinuementCriterium:
   eval on the nodes of a 4 x 4 mesh with one refined leaf.  Reals are exact
   rationals; a gradient is kept as the square of its magnitude and the
   divisor, and stands for sqrt(magnitude2) / divisor. *)

\* how many operations one behaviour of SpecGradient calls before eval
MaxGradientCalls == 2

\* the sides of the uniform meshes of SpecGradient
GradientSides == {4}

\* leaf_value of the meshes of SpecGradient: counting up from -10 (leaves with
\* negative, zero and positive values), counting up from -30 (negative values
\* only), 1 everywhere, 0 everywhere
GradientGenerators ==
    {[start |-> 0 - 10, step |-> 1], [start |-> 0 - 30, step |-> 1],
     [start |-> 1, step |-> 0], [start |-> 0, step |-> 0]}

\* the thresholds of the criteria of SpecGradient
GradientThresholds == {RInt(0), Rat(1, 2)}

\* the threshold of the log-scale criteria of SpecGradient: with it,
\* log(relative_gradient + 1) * 10.0 > threshold is relative_gradient > 0
LogThreshold == RInt(0)

\* the factor of a coarser leaf neighbor, 0.7905
CoarserFactor == Rat(7905, 10000)

\* the factor of a neighbor with children, 0.75
FinerFactor == Rat(3, 4)

\* the children of a neighbor handle_neighbor takes the mean of
MirroredChildren(direction) ==
    CASE direction = "RIGHT" -> << <<0, 0, NoZ>>, <<0, 1, NoZ>> >>
      [] direction = "LEFT"  -> << <<1, 0, NoZ>>, <<1, 1, NoZ>> >>
      [] direction = "UP"    -> << <<0, 1, NoZ>>, <<1, 1, NoZ>> >>
      [] direction = "DOWN"  -> << <<0, 0, NoZ>>, <<1, 0, NoZ>> >>

\* RefinementCriterium.handle_neighbor: (value, factor), with exists FALSE for
\* (None, 0.0)
HandleNeighbor(t, current_node, node, direction) ==
    IF node = None THEN [exists |-> FALSE, value |-> RInt(0), factor |-> RInt(0)]
    ELSE IF IsLeaf(t, node) /\ t[node].level < t[current_node].level
    THEN [exists |-> TRUE, value |-> t[node].value, factor |-> CoarserFactor]
    ELSE IF IsLeaf(t, node)
    THEN [exists |-> TRUE, value |-> t[node].value, factor |-> RInt(1)]
    ELSE LET keys == MirroredChildren(direction)
         IN  [exists |-> TRUE,
              value |-> RQuotient(RAdd(t[Child(node, keys[1])].value,
                                  t[Child(node, keys[2])].value), RInt(2)),
              factor |-> FinerFactor]

\* the list neighbors of eval: RIGHT, LEFT, UP, DOWN
GradientNeighbors(t, p) ==
    LET directions == <<"RIGHT", "LEFT", "UP", "DOWN">>
    IN  [i \in 1..4 |-> HandleNeighbor(t, p, Neighbor(t, p, directions[i]), directions[i])]

\* "all(n[0] for n in neighbors)" with the test "n[0] is not None" in place of
\* the truth value of n[0]
AllNeighborsExist(neighbors) == \A i \in 1..4 : neighbors[i].exists

\* "all(n[0] for n in neighbors)": None and 0.0 are both false
AllNeighbors(neighbors) ==
    \A i \in 1..4 : neighbors[i].exists /\ neighbors[i].value # RInt(0)

\* dx_gradient ** 2 + dy_gradient ** 2
GradientMagnitude2(neighbors) ==
    LET dx_gradient == RQuotient(RSub(neighbors[1].value, neighbors[2].value),
                            RAdd(neighbors[1].factor, neighbors[2].factor))
        dy_gradient == RQuotient(RSub(neighbors[3].value, neighbors[4].value),
                            RAdd(neighbors[3].factor, neighbors[4].factor))
    IN  RAdd(RTimes(dx_gradient, dx_gradient), RTimes(dy_gradient, dy_gradient))

\* the gradient 0.0: what Node.__init__ sets node.gradient to
ZeroGradient == [magnitude2 |-> RInt(0), divisor |-> RInt(1)]

\* "gradient_magnitude / max(abs(node.value), 1e-6)"
RelativeGradientFloored(magnitude2, value) ==
    LET floor == Rat(1, 1000000)
        size == IF RBelow(value, RInt(0)) THEN RSub(RInt(0), value) ELSE value
    IN  [magnitude2 |-> magnitude2, divisor |-> IF RBelow(size, floor) THEN floor ELSE size]

\* "gradient_magnitude / node.value if node.value != 0.0 else 0.0"
RelativeGradient(magnitude2, value) ==
    IF value # RInt(0) THEN [magnitude2 |-> magnitude2, divisor |-> value]
    ELSE ZeroGradient

\* gradient > threshold for a threshold >= 0
ExceedsThreshold(gradient, threshold) ==
    /\ RBelow(RInt(0), gradient.divisor)
    /\ LET bound == RTimes(threshold, gradient.divisor)
       IN  RBelow(RTimes(bound, bound), gradient.magnitude2)

\* whether log(relative_gradient + 1) is outside the domain of math.log:
\* relative_gradient <= -1
LogDomainError(gradient) ==
    /\ RBelow(gradient.divisor, RInt(0))
    /\ ~RBelow(gradient.magnitude2, RTimes(gradient.divisor, gradient.divisor))

\* eval of the two gradient criteria after the list neighbors is built: the
\* verdict, whether node.gradient was assigned, and what node.gradient is
\* after the call (log TRUE: it is log(gradient + 1) * 10.0)
GradientEvalOn(neighbors, all_neighbors, value, log_scale, threshold) ==
    IF ~all_neighbors
    THEN [verdict |-> FALSE, assigned |-> FALSE, gradient |-> ZeroGradient,
          log |-> FALSE, err |-> "none"]
    ELSE LET relative_gradient == RelativeGradient(GradientMagnitude2(neighbors), value)
         IN  IF log_scale /\ LogDomainError(relative_gradient)
             THEN [verdict |-> FALSE, assigned |-> FALSE, gradient |-> ZeroGradient,
                   log |-> FALSE, err |-> "ValueError"]
             ELSE [verdict |-> ExceedsThreshold(relative_gradient, threshold),
                   assigned |-> TRUE, gradient |-> relative_gradient,
                   log |-> log_scale, err |-> "none"]

\* GradientRefinementCriterium.eval (log_scale FALSE) and
\* LogScaleGradientRefinuementCriterium.eval (log_scale TRUE)
GradientEval(t, p, log_scale, threshold) ==
    GradientEvalOn(GradientNeighbors(t, p), AllNeighbors(GradientNeighbors(t, p)),
                   t[p].value, log_scale, threshold)

\* Mesh.uniform(n, leaf_value, lx, ly)
GradientMeshUniform ==
    /\ calls < MaxGradientCalls
    /\ ~HasRoot(tree)
    /\ \E n \in GradientSides, gen \in GradientGenerators :
          LET r == UniformResult(n, gen, FALSE)
          IN  tree' = r.t /\ err' = r.err
    /\ op' = Called("uniform", None)
    /\ calls' = calls + 1

\* node.refine() on a leaf of the uniform mesh
GradientNodeRefine ==
    /\ calls < MaxGradientCalls
    /\ HasRoot(tree)
    /\ \E p \in LeafSet(tree) :
          /\ tree' = Refine(tree, p)
          /\ op' = CalledOn("refine", tree, p)
    /\ err' = "none"
    /\ calls' = calls + 1

\* the operation eval ends a behaviour of SpecGradient with
GradientDone == MaxGradientCalls + 1

\* criterium.eval(node) on a node of the mesh, for a gradient criterium
CriteriumEval ==
    /\ calls <= MaxGradientCalls
    /\ \E p \in DOMAIN tree, log_scale \in BOOLEAN :
          \E threshold \in (IF log_scale THEN {LogThreshold} ELSE GradientThresholds) :
             LET r == GradientEval(tree, p, log_scale, threshold)
             IN  /\ err' = r.err
                 /\ op' = Returned("eval", p, IsLeaf(tree, p),
                                   [log_scale |-> log_scale, threshold |-> threshold],
                                   IF r.err = "none" THEN <<r>> ELSE <<>>)
    /\ tree' = tree
    /\ calls' = GradientDone

NextGradient == GradientMeshUniform \/ GradientNodeRefine \/ CriteriumEval

SpecGradient == Init /\ [][NextGradient]_vars

----------------------------------------------------------------------------
(* Properties: predicates on trees *)

\* the tree is two-dimensional
TwoDimensional(t) == ~IsTriDimensional(t[Root].origin)

\* the root was created at the origin (0,0) or (0,0,0)
RootAtOrigin(t) == t[Root].origin \in {<<0, 0, NoZ>>, <<0, 0, 0>>}

\* the keys a non-leaf of the tree holds its children under
ChildKeys(t) ==
    IF TwoDimensional(t)
    THEN {<<i, j, NoZ>> : i \in {0, 1}, j \in {0, 1}}
    ELSE {<<i, j, k>> : i \in {0, 1}, j \in {0, 1}, k \in {0, 1}}

\* the node p holds one child per key, each one level below p, at the origin
\* its key names, and referring to p as its parent
CompleteAt(t, p) ==
    /\ Len(t[p].children) = Cardinality(ChildKeys(t))
    /\ Range(t[p].children) = ChildKeys(t)
    /\ \A key \in Range(t[p].children) :
          /\ Child(p, key) \in DOMAIN t
          /\ t[Child(p, key)].level = t[p].level + 1
          /\ t[Child(p, key)].origin = key
          /\ t[Child(p, key)].parent = p

ChildComplete(t) == \A p \in DOMAIN t : ~IsLeaf(t, p) => CompleteAt(t, p)

\* the coordinates of the tree's points
Axes(t) == IF TwoDimensional(t) THEN {1, 2} ELSE {1, 2, 3}

\* the cell of the leaf p lies in the unit square (the unit cube)
InUnitBox(t, p) ==
    \A i \in Axes(t) :
        /\ 0 <= t[p].absolute_origin[i]
        /\ t[p].absolute_origin[i] < Pow2(MaxLevel)
        /\ t[p].absolute_origin[i] + Side(t, p) <= Pow2(MaxLevel)

\* the side of the smallest leaf
Grain(t) == CHOOSE g \in {Side(t, p) : p \in LeafSet(t)} :
                \A p \in LeafSet(t) : g <= Side(t, p)

\* the lower corners of the squares (cubes) of side Grain(t) the unit square
\* (cube) is made of
GridPoints(t) ==
    LET ticks == {Grain(t) * k : k \in 0..(Pow2(MaxLevel) \div Grain(t) - 1)}
    IN  IF TwoDimensional(t)
        THEN {<<x, y, NoZ>> : x \in ticks, y \in ticks}
        ELSE {<<x, y, z>> : x \in ticks, y \in ticks, z \in ticks}

\* the cell [absolute_origin, absolute_origin + 2^-level) of the leaf p holds
\* the point pt
Covers(t, p, pt) ==
    \A i \in Axes(t) :
        /\ t[p].absolute_origin[i] <= pt[i]
        /\ pt[i] < t[p].absolute_origin[i] + Side(t, p)

\* the cells of the leaves tile the unit square (cube): every cell lies in it
\* and on the grid of the smallest leaf, and every square of that grid is in
\* the cell of exactly one leaf
Tiles(t) ==
    /\ \A p \in LeafSet(t) :
          /\ InUnitBox(t, p)
          /\ \A i \in Axes(t) : t[p].absolute_origin[i] % Grain(t) = 0
    /\ \A pt \in GridPoints(t) :
          Cardinality({p \in LeafSet(t) : Covers(t, p, pt)}) = 1

\* the leaf lacks a cardinal neighbor
OnBoundary(t, p) == \E direction \in Direction : Neighbor(t, p, direction) = None

\* the value a Neumann boundary gives the leaf p from the values of t: a
\* missing neighbor counts for the value of p
NeumannValue(t, p, scheme) ==
    LET ValueAt(direction) ==
            LET n == Neighbor(t, p, direction)
            IN  IF n = None THEN t[p].value ELSE t[n].value
        two == RMul(RInt(2), t[p].value)
        term1 == RDiv(RSub(RAdd(ValueAt("RIGHT"), ValueAt("LEFT")), two),
                      RMul(scheme.d1, scheme.d1))
        term2 == RDiv(RSub(RAdd(ValueAt("UP"), ValueAt("DOWN")), two),
                      RMul(scheme.d2, scheme.d2))
    IN  RAdd(t[p].value, RMul(scheme.laplacian_factor, RAdd(term1, term2)))

\* every leaf of t has the value v
AllLeaves(t, v) == \A p \in LeafSet(t) : t[p].value = v

Reverse(s) == [i \in DOMAIN s |-> s[Len(s) + 1 - i]]

\* the operations C7 lists
TilingOperations == {"uniform", "refine", "refine_generated", "coarsen",
                     "Mesh.refine", "solve", "inject"}

----------------------------------------------------------------------------
(* The claims *)

\* C1: Mesh.refine, called on a two-dimensional mesh in which any two leaves
\* that share a face differ by at most one level, returns a mesh in which any
\* two leaves that share a face differ by at most one level.
C1_RefineKeepsGrading ==
    [][(/\ op'.name = "Mesh.refine"
        /\ err' = "none"
        /\ TwoDimensional(tree)
        /\ Graded(tree)) => Graded(tree')]_vars

\* C2: Mesh.refine raises no exception on a mesh with a root whose tree is
\* child-complete and graded, whatever the criterion and the depths; the root
\* may be a leaf.
C2_RefineRaisesNothing ==
    [][(/\ op'.name = "Mesh.refine"
        /\ HasRoot(tree)
        /\ TwoDimensional(tree)
        /\ ChildComplete(tree)
        /\ Graded(tree)) => err' = "none"]_vars

\* C3: apply gives every leaf the same value whatever the order of the
\* leaves: what Mesh.solve leaves, having gone through the leaves in the
\* order of Node.leafs, is what apply gives on the same leaves in the reverse
\* order.
C3_ApplyOrderIndependent ==
    [][op'.name = "solve" =>
          \A scheme \in Schemes :
              tree' = Apply(tree, Reverse(Leafs(tree, Root)), scheme)]_vars

C5_ConstantPreserved ==
    [][op'.name = "solve" =>
          \A p \in LeafSet(tree) :
              AllLeaves(tree, tree[p].value) => AllLeaves(tree', tree[p].value)]_vars

\* C6: every non-leaf node holds exactly one child per origin of {0,1}^2
\* ({0,1}^3 for a three-dimensional node), each child one level below it, at
\* the origin its key names, and referring to it as its parent.
C6_ChildComplete == HasRoot(tree) => ChildComplete(tree)

\* Mesh.refine has returned a two-dimensional mesh with a non-leaf below the
\* root
C6_Witness ==
    /\ op.name = "Mesh.refine"
    /\ err = "none"
    /\ HasRoot(tree) /\ TwoDimensional(tree)
    /\ \E p \in DOMAIN tree : tree[p].level = 1 /\ ~IsLeaf(tree, p)

\* C7, as the specification states it: after uniform, Node.refine,
\* Node.coarsen, Mesh.refine, solve or inject returns, the cells of the leaves
\* tile the unit square (the unit cube in three dimensions).
C7_LeavesTile ==
    (HasRoot(tree) /\ err = "none" /\ op.name \in TilingOperations) => Tiles(tree)

\* C7, amended: on a mesh whose root is at the origin (0,0) or (0,0,0), the
\* cells of the leaves tile the unit square (the unit cube) after every
\* operation.
C7_LeavesTileFromOrigin ==
    (HasRoot(tree) /\ RootAtOrigin(tree)) => Tiles(tree)

\* Mesh.refine has returned a two-dimensional mesh with its root at the
\* origin and leaves on two levels or more
C7_Witness ==
    /\ op.name = "Mesh.refine"
    /\ err = "none"
    /\ HasRoot(tree) /\ TwoDimensional(tree) /\ RootAtOrigin(tree)
    /\ \E p, q \in LeafSet(tree) : tree[p].level < tree[q].level
    /\ \E p \in LeafSet(tree) : tree[p].level >= 2

\* C8, as the specification states it: the cell of every leaf of every mesh
\* lies in the unit square, each coordinate of its absolute origin in [0, 1).
C8_LeafInUnitBox ==
    HasRoot(tree) => \A p \in LeafSet(tree) : InUnitBox(tree, p)

\* C8, amended: the cell of every leaf of a mesh whose root is at the origin
\* (0,0) or (0,0,0) lies in the unit square (the unit cube), each coordinate
\* of its absolute origin in [0, 1).
C8_LeafInUnitBoxFromOrigin ==
    (HasRoot(tree) /\ RootAtOrigin(tree)) =>
        \A p \in LeafSet(tree) : InUnitBox(tree, p)

\* a mesh with its root at the origin has a leaf of level 2 whose cell ends
\* on the right edge of the unit square
C8_Witness ==
    /\ HasRoot(tree) /\ RootAtOrigin(tree)
    /\ \E p \in LeafSet(tree) :
          /\ tree[p].level = 2
          /\ tree[p].absolute_origin[1] + Side(tree, p) = Pow2(MaxLevel)

\* C9: Node.coarsen on a non-leaf gives it the mean of the values its
\* children had, removes the nodes below it and changes nothing else; on a
\* leaf it changes nothing.
C9_Coarsen ==
    [][op'.name = "coarsen" =>
          LET p == op'.node
          IN  IF IsLeaf(tree, p) THEN tree' = tree
              ELSE /\ RMul(tree'[p].value, RInt(Len(tree[p].children)))
                         = RSum(ChildrenValues(tree, p))
                   /\ tree'[p].children = <<>>
                   /\ [tree'[p] EXCEPT !.value = tree[p].value,
                                       !.children = tree[p].children] = tree[p]
                   /\ DOMAIN tree' = DOMAIN tree \ Descendants(tree, p)
                   /\ \A q \in DOMAIN tree' \ {p} : tree'[q] = tree[q]]_vars

\* Node.coarsen has returned from a root that had the children 1, 2, 3, 4
C9_Witness ==
    /\ op.name = "coarsen"
    /\ ~op.leaf
    /\ op.node = Root
    /\ IsLeaf(tree, Root)
    /\ tree[Root].value = Rat(5, 2)

\* C10: after Node.refine, with or without a generator, the node has the mean
\* of the values of its children, and Node.coarsen makes it a leaf of the same
\* value.
C10_RefineMean ==
    op.name \in {"refine", "refine_generated"} =>
        LET p == op.node
            coarsened == Coarsen(tree, p)
        IN  /\ ~IsLeaf(tree, p)
            /\ RMul(tree[p].value, RInt(Len(tree[p].children)))
                  = RSum(ChildrenValues(tree, p))
            /\ coarsened[p].children = <<>>
            /\ coarsened[p].value = tree[p].value

\* Node.refine has returned, with a generator, from a root of value 2 that
\* now has the children 1, 2, 3, 4
C10_Witness ==
    /\ op.name = "refine_generated"
    /\ op.node = Root
    /\ op.leaf
    /\ ChildrenValues(tree, Root) = <<RInt(1), RInt(2), RInt(3), RInt(4)>>
    /\ tree[Root].value = Rat(5, 2)

----------------------------------------------------------------------------
(* Mesh.uniform *)

\* n = 2^k for a k >= 0
IsPowerOfTwo(n) == \E k \in 0..n : Pow2(k) = n

Log2(n) == CHOOSE k \in 0..n : Pow2(k) = n

\* how many times Mesh.uniform(n, gen, ...) calls gen: 4 + 16 + ... + n^2
GeneratorCalls(n) == (4 * n * n - 4) \div 3

\* the values gen returns in its first count calls
GeneratedValues(gen, count) == Range(Generate(gen, 0, count))

\* what C11 says of Mesh.uniform(n, gen, lx, ly) for the n of the set N
UniformBuilds(N) ==
    (op.name = "uniform" /\ op.args.n \in N) =>
        /\ err = "none"
        /\ HasRoot(tree)
        /\ TwoDimensional(tree)
        /\ Cardinality(LeafSet(tree)) = op.args.n * op.args.n
        /\ \A p \in LeafSet(tree) :
              /\ tree[p].level = Log2(op.args.n)
              /\ tree[p].value \in GeneratedValues(op.args.gen, GeneratorCalls(op.args.n))
        /\ op.ret = <<Log2(op.args.n)>>

\* C11: for every power of two n >= 1, Mesh.uniform(n, gen, lx, ly) returns a
\* 2D mesh with exactly n^2 leaves, all at level log2(n), every leaf's value
\* produced by gen, and the returned level is log2(n).
C11_Uniform == UniformBuilds({n \in 1..MaxWideUniform : IsPowerOfTwo(n)})

\* C11 for the powers of two n >= 2, the meshes Mesh.uniform refines at least
\* once
C11_UniformFromTwo == UniformBuilds({n \in 2..MaxWideUniform : IsPowerOfTwo(n)})

\* what C12 says of Mesh.uniform(n, ...) for the n of the set N
UniformRejects(N) ==
    (op.name = "uniform" /\ op.args.n \in N) =>
        /\ err = "ValueError"
        /\ ~HasRoot(tree)
        /\ op.ret = <<>>

\* C12: Mesh.uniform fails with ValueError and returns no mesh for every
\* integer n >= 0 that is not a power of two.
C12_UniformRejects == UniformRejects({n \in 0..MaxWideUniform : ~IsPowerOfTwo(n)})

\* C12 for the n >= 1 that are not powers of two
C12_UniformRejectsFromOne ==
    UniformRejects({n \in 1..MaxWideUniform : ~IsPowerOfTwo(n)})

----------------------------------------------------------------------------
(* The empty mesh *)

\* the operations that need a root
NeedsRoot == {"Mesh.refine", "inject", "solve", "save", "leafs"}

\* C13: on a mesh with no root, each of Mesh.refine, Mesh.inject, Mesh.solve,
\* Mesh.save and iterating Mesh.leafs fails with ValueError, and the mesh is
\* still empty afterwards: no root is created, nothing is mutated.
C13_EmptyMesh ==
    [][(tree = EmptyMesh /\ op'.name \in NeedsRoot) =>
           /\ err' = "ValueError"
           /\ tree' = EmptyMesh]_vars

\* the mesh is empty after two of these operations, the last one the iteration
\* of Mesh.leafs
C13_Witness ==
    /\ tree = EmptyMesh
    /\ calls = 2
    /\ op.name = "leafs"
    /\ op.ret = <<>>
    /\ err = "ValueError"

----------------------------------------------------------------------------
(* Node.copy *)

\* C14: Node.copy on a leaf returns a new node with the same value, level,
\* origin and parent reference, and the tree is unchanged: the copy is in no
\* children map.  Node.copy on a non-leaf fails with ValueError and changes
\* nothing.
C14_Copy ==
    [][op'.name = "copy" =>
           /\ tree' = tree
           /\ IF IsLeaf(tree, op'.node)
              THEN /\ err' = "none"
                   /\ Len(op'.ret) = 1
                   /\ op'.ret[1].value = tree[op'.node].value
                   /\ op'.ret[1].level = tree[op'.node].level
                   /\ op'.ret[1].origin = tree[op'.node].origin
                   /\ op'.ret[1].parent = tree[op'.node].parent
              ELSE /\ err' = "ValueError"
                   /\ op'.ret = <<>>]_vars

\* a leaf below the root has been copied, and its parent holds the children
\* it held
C14_Witness ==
    /\ op.name = "copy"
    /\ op.leaf
    /\ err = "none"
    /\ op.ret[1].parent # None
    /\ op.ret[1].level = 2
    /\ Len(tree[op.ret[1].parent].children) = 4

----------------------------------------------------------------------------
(* Node.neighbor and Node.chain *)

\* the face of the cell of p in the direction lies on the boundary of the
\* cell of the root (UP is the side of the smaller y)
FaceOnBoundary(t, p, direction) ==
    LET o == t[p].absolute_origin
        ro == t[Root].absolute_origin
    IN  CASE direction = "RIGHT" -> o[1] + Side(t, p) = ro[1] + Side(t, Root)
          [] direction = "LEFT"  -> o[1] = ro[1]
          [] direction = "UP"    -> o[2] = ro[2]
          [] direction = "DOWN"  -> o[2] + Side(t, p) = ro[2] + Side(t, Root)

\* the cell of q lies against the face of the cell of p in the direction and
\* covers the whole face
AbutsAcross(t, p, q, direction) ==
    LET o == t[p].absolute_origin
        s == Side(t, p)
        qo == t[q].absolute_origin
        qs == Side(t, q)
        along(i) == qo[i] <= o[i] /\ o[i] + s <= qo[i] + qs
    IN  CASE direction = "RIGHT" -> qo[1] = o[1] + s /\ along(2)
          [] direction = "LEFT"  -> qo[1] + qs = o[1] /\ along(2)
          [] direction = "UP"    -> qo[2] + qs = o[2] /\ along(1)
          [] direction = "DOWN"  -> qo[2] = o[2] + s /\ along(1)

\* X.neighbor(d) has been called on a node of a 2D tree (child-complete, as
\* every tree is: C6)
NeighborCalled ==
    /\ op.name = "neighbor"
    /\ TwoDimensional(tree)
    /\ ChildComplete(tree)

\* C15: for every node X of a child-complete 2D tree and every direction d
\* (UP decreases y), X.neighbor(d) is None exactly when the face of X in the
\* direction d lies on the boundary of the root domain; otherwise it is a node
\* of level <= X.level whose cell abuts X across that face and covers the
\* whole extent of the face.
C15_Neighbor ==
    NeighborCalled =>
        LET X == op.node
            d == op.args.direction
            neighbor_node == op.ret[1]
        IN  /\ (neighbor_node = None) <=> FaceOnBoundary(tree, X, d)
            /\ neighbor_node # None =>
                  /\ neighbor_node \in DOMAIN tree
                  /\ tree[neighbor_node].level <= tree[X].level
                  /\ AbutsAcross(tree, X, neighbor_node, d)

\* the neighbor of a level-3 leaf is a leaf two levels above it, across the
\* edge of the leaf's parent and of its grandparent
C15_Witness ==
    /\ NeighborCalled
    /\ op.leaf
    /\ tree[op.node].level = 3
    /\ op.ret[1] # None
    /\ tree[op.ret[1]].level = 1
    /\ IsLeaf(tree, op.ret[1])

\* X.neighbor(d) has been called on a leaf of a 2D tree that satisfies 2:1
\* grading and has returned a node
GradedNeighborCalled ==
    /\ NeighborCalled
    /\ op.leaf
    /\ Graded(tree)
    /\ op.ret[1] # None

\* C16: in a tree that satisfies 2:1 grading, for every leaf X and direction
\* d, a non-None X.neighbor(d) has level X.level or X.level - 1, and whenever
\* its level is below X.level the returned node is a leaf.
C16_GradedNeighbor ==
    GradedNeighborCalled =>
        LET X == op.node
            neighbor_node == op.ret[1]
        IN  /\ tree[neighbor_node].level \in {tree[X].level, tree[X].level - 1}
            /\ tree[neighbor_node].level < tree[X].level => IsLeaf(tree, neighbor_node)

\* the neighbor of a level-3 leaf of a graded tree with leaves on the levels
\* 1, 2 and 3 is a level-2 leaf
C16_Witness ==
    /\ GradedNeighborCalled
    /\ tree[op.node].level = 3
    /\ tree[op.ret[1]].level = 2
    /\ IsLeaf(tree, op.ret[1])
    /\ \E p \in LeafSet(tree) : tree[p].level = 1

\* neighbor(d1), then neighbor(d2) on the result, and so on: the node the
\* directions but the last lead to, and from there the neighbor in the last
\* direction; None when a link is None
RECURSIVE NeighborsInTurn(_, _, _)
NeighborsInTurn(t, p, directions) ==
    IF directions = <<>> THEN p
    ELSE LET before == NeighborsInTurn(t, p, SubSeq(directions, 1, Len(directions) - 1))
         IN  IF before = None THEN None
             ELSE Neighbor(t, before, directions[Len(directions)])

\* C17: Node.chain(d1, ..., dk) equals applying neighbor(d1), then
\* neighbor(d2) on the result, and so on left to right; it returns None as
\* soon as a link is None, and chain with no direction returns the node.
C17_Chain ==
    op.name = "chain" =>
        /\ op.ret = <<NeighborsInTurn(tree, op.node, op.args.directions)>>
        /\ op.args.directions = <<>> => op.ret = <<op.node>>
        /\ \A k \in 1..Len(op.args.directions) :
              NeighborsInTurn(tree, op.node, SubSeq(op.args.directions, 1, k)) = None
                  => op.ret = <<None>>

\* a chain of two directions whose first link is None, from a node that has a
\* neighbor in the second direction
C17_Witness ==
    /\ op.name = "chain"
    /\ Len(op.args.directions) = 2
    /\ tree[op.node].level = 2
    /\ Neighbor(tree, op.node, op.args.directions[1]) = None
    /\ Neighbor(tree, op.node, op.args.directions[2]) # None
    /\ op.ret = <<None>>

----------------------------------------------------------------------------
(* Node.buffer *)

\* every leaf of the mesh is at the same level
UniformMesh(t) == \A p, q \in LeafSet(t) : t[p].level = t[q].level

\* the grid position (i, j) of the node p among the cells of its level
GridPosition(t, p) ==
    <<t[p].absolute_origin[1] \div Side(t, p), t[p].absolute_origin[2] \div Side(t, p)>>

\* the Chebyshev distance of two grid positions
Chebyshev(a, b) ==
    IF Abs(a[1] - b[1]) >= Abs(a[2] - b[2]) THEN Abs(a[1] - b[1]) ELSE Abs(a[2] - b[2])

\* no node is twice in the sequence
NoDuplicates(nodes) ==
    \A k, l \in DOMAIN nodes : k # l => nodes[k] # nodes[l]

\* X.buffer(n) has been called on a leaf of a uniform 2D mesh
UniformBufferCalled ==
    /\ op.name = "buffer"
    /\ op.leaf
    /\ TwoDimensional(tree)
    /\ UniformMesh(tree)

\* C18: on a uniform mesh, for every leaf X at the grid position (i, j) and
\* every n >= 1, X.buffer(n) contains exactly the leaves at the positions
\* (i+a, j+b), (a, b) in [-n, n]^2 minus (0, 0), that lie inside the domain,
\* each exactly once and never X itself.
C18_UniformBuffer ==
    UniformBufferCalled =>
        LET X == op.node
            nodes == op.ret[1]
        IN  /\ Range(nodes) =
                  {q \in LeafSet(tree) :
                      /\ q # X
                      /\ Chebyshev(GridPosition(tree, q), GridPosition(tree, X))
                             <= op.args.n}
            /\ NoDuplicates(nodes)

\* the 48 nodes of buffer(3) around the leaf at (3, 3) of the 8 x 8 mesh
C18_Witness ==
    /\ UniformBufferCalled
    /\ Cardinality(LeafSet(tree)) = 64
    /\ op.args.n = 3
    /\ GridPosition(tree, op.node) = <<3, 3>>
    /\ Len(op.ret[1]) = 48

\* the 15 nodes of buffer(3) at the corner (0, 0) of the 8 x 8 mesh
C18_WitnessCorner ==
    /\ UniformBufferCalled
    /\ Cardinality(LeafSet(tree)) = 64
    /\ op.args.n = 3
    /\ GridPosition(tree, op.node) = <<0, 0>>
    /\ Len(op.ret[1]) = 15

\* X.buffer(n) has been called on a leaf of a 2D mesh that satisfies 2:1
\* grading and has leaves on several levels
MixedBufferCalled ==
    /\ op.name = "buffer"
    /\ op.leaf
    /\ TwoDimensional(tree)
    /\ Graded(tree)
    /\ ~UniformMesh(tree)

\* C19: on a mixed-level (graded) mesh, when several buffer slots of
\* X.buffer(n) map onto the same coarser node, that node appears exactly once
\* in the result: the collection returned by buffer contains no node twice.
C19_BufferNoDuplicates == MixedBufferCalled => NoDuplicates(op.ret[1])

----------------------------------------------------------------------------
(* The buffer zone of Mesh.refine *)

\* one of the four leaves around the centre of a uniform mesh
Central(t, p) ==
    LET half == Pow2(t[p].level) \div 2
    IN  /\ GridPosition(t, p)[1] \in {half - 1, half}
        /\ GridPosition(t, p)[2] \in {half - 1, half}

\* the position, on the grid of the cells of the level, of the cell of that
\* level that holds the origin of the node p
CellAt(t, p, level) ==
    LET side == Pow2(MaxLevel) \div Pow2(level)
    IN  <<t[p].absolute_origin[1] \div side, t[p].absolute_origin[2] \div side>>

\* the mesh is the uniform 8 x 8 mesh: 64 leaves, all at level 3
UniformEight(t) ==
    /\ HasRoot(t)
    /\ TwoDimensional(t)
    /\ Cardinality(LeafSet(t)) = 64
    /\ \A p \in LeafSet(t) : t[p].level = 3

\* C20: on a uniform 8 x 8 mesh (all leaves at level 3) with a criterion that
\* flags only one central leaf, after one Mesh.refine(criterion, max_depth=5)
\* every leaf within a 4-cell Chebyshev radius of the flagged cell (the region
\* of the flagged cell included) is at level >= 4 and every leaf farther away
\* is still at level 3.
C20_BufferZone ==
    [][(/\ op'.name = "Mesh.refine"
        /\ UniformEight(tree)
        /\ Central(tree, op'.node)
        /\ op'.args.max_depth = 5) =>
           /\ err' = "none"
           /\ \A q \in LeafSet(tree') :
                 IF Chebyshev(CellAt(tree', q, 3), GridPosition(tree, op'.node)) <= 4
                 THEN tree'[q].level >= 4
                 ELSE tree'[q].level = 3]_vars

\* Mesh.refine has returned from the uniform 8 x 8 mesh with the leaf at
\* (3, 4) flagged: the flagged leaf has four children, and the leaf in the
\* corner (7, 0), four cells away, is at level 4
C20_Witness ==
    /\ op.name = "Mesh.refine"
    /\ err = "none"
    /\ op.node # None
    /\ tree[op.node].level = 3
    /\ GridPosition(tree, op.node) = <<3, 4>>
    /\ Len(tree[op.node].children) = 4
    /\ \E q \in LeafSet(tree) :
          /\ tree[q].level = 4
          /\ CellAt(tree, q, 3) = <<7, 0>>

----------------------------------------------------------------------------
(* The depth limits and the two passes of Mesh.refine *)

\* the last step was a Mesh.refine call on a mesh with a root, and its
\* arguments and passes are in op
Traced(o) == o.name = "Mesh.refine" /\ "args" \in DOMAIN o

\* every leaf of the mesh is at a level between lo and hi
LeavesBetween(t, lo, hi) == \A p \in LeafSet(t) : lo <= t[p].level /\ t[p].level <= hi

\* C21: if every leaf has level <= max_depth before
\* Mesh.refine(criterion, min_depth, max_depth), then every leaf has level
\* <= max_depth after it, for any criterion (one that flags every node
\* included) and across any number of successive calls.
C21_MaxDepth ==
    [][(Traced(op') /\ LeavesBetween(tree, 0, op'.args.max_depth)) =>
           LeavesBetween(tree', 0, op'.args.max_depth)]_vars

\* a Mesh.refine call with a criterion that flags every node has refined
\* leaves, and the 16 leaves of the mesh are at max_depth
C21_Witness ==
    /\ Traced(op)
    /\ err = "none"
    /\ op.args.criterium.kind = "always"
    /\ op.args.max_depth = 2
    /\ Len(op.ret[1].refined) > 0
    /\ Cardinality(LeafSet(tree)) = 16
    /\ LeavesBetween(tree, 2, 2)

\* C22: if every leaf has level >= min_depth before
\* Mesh.refine(criterion, min_depth, max_depth), then every leaf has level
\* >= min_depth after it: Pass 2 never coarsens a parent whose level is below
\* min_depth, for any criterion (one that rejects every node included).
C22_MinDepth ==
    [][(Traced(op') /\ LeavesBetween(tree, op'.args.min_depth, MaxLevel)) =>
           /\ LeavesBetween(tree', op'.args.min_depth, MaxLevel)
           /\ \A k \in DOMAIN op'.ret[1].to_coarsen :
                 op'.ret[1].after_pass_one[op'.ret[1].to_coarsen[k]].level
                     >= op'.args.min_depth]_vars

\* a Mesh.refine call with a criterion that rejects every node and min_depth 1
\* has coarsened the four level-1 parents of a 4 x 4 mesh and not the root
C22_Witness ==
    /\ Traced(op)
    /\ err = "none"
    /\ op.args.criterium.kind = "never"
    /\ op.args.min_depth = 1
    /\ Len(op.ret[1].leaves) = 16
    /\ Len(op.ret[1].to_coarsen) = 4
    /\ Cardinality(LeafSet(tree)) = 4
    /\ LeavesBetween(tree, 1, 1)

\* the nodes Pass 1 of the call refined, and the nodes it kept from coarsening
\* (the refined buffer nodes and the parents of the other buffer nodes)
ProtectedNodes(trace) == Range(trace.refined) \cup trace.to_refine \cup trace.neighbors

\* the nodes Pass 2 of the call removed: the children of the coarsened parents
RemovedByPassTwo(trace) ==
    UNION {Descendants(trace.after_pass_one, trace.to_coarsen[k]) :
               k \in DOMAIN trace.to_coarsen}

\* C23: within one Mesh.refine call, every node that Pass 1 refined (as a
\* buffer cell or as a member of to_refine) and every parent that Pass 1 put
\* in the protected set is still a non-leaf that exists in the tree when the
\* call returns: Pass 2 coarsens none of them, even if the criterion is false
\* on them.
C23_ProtectedStay ==
    [][(Traced(op') /\ err' = "none") =>
           \A node \in ProtectedNodes(op'.ret[1]) :
               /\ node \in DOMAIN tree'
               /\ ~IsLeaf(tree', node)
               /\ node \notin Range(op'.ret[1].to_coarsen)]_vars

\* the part of C23 that is about Pass 2: no node Pass 1 refined or protected
\* is coarsened or removed by Pass 2
C23_PassTwoSparesProtected ==
    [][(Traced(op') /\ err' = "none") =>
           \A node \in ProtectedNodes(op'.ret[1]) :
               /\ node \notin Range(op'.ret[1].to_coarsen)
               /\ node \notin RemovedByPassTwo(op'.ret[1])]_vars

\* the tree after Node.refine has been called on the nodes, one after the other
AfterRefinements(t, nodes) == ForEach(Refine, t, nodes)

\* whether the children of a parent are all in the list of leaves
ChildrenAmong(t, parent, leaves) ==
    \A i \in DOMAIN t[parent].children :
        Append(parent, t[parent].children[i]) \in Range(leaves)

\* C24: within one Mesh.refine call every Node.refine call (on a buffer node
\* or on a node of to_refine) happens before Pass 2 enumerates the leaves,
\* every shall_coarsen evaluation and every Node.coarsen call happens after
\* it, and the leaves Pass 2 works on are exactly the leaves of the tree as
\* Pass 1 left it: the tree Pass 2 enumerates is the tree before the call with
\* all the refinements of the call applied, the parents of to_coarsen pass
\* shall_coarsen in that tree and have their children among the enumerated
\* leaves, and the tree the call returns is that tree with the parents of
\* to_coarsen coarsened.
C24_PassOrder ==
    [][Traced(op') =>
           /\ op'.ret[1].after_pass_one = AfterRefinements(tree, op'.ret[1].refined)
           /\ op'.ret[1].leaves = Leafs(op'.ret[1].after_pass_one, Root)
           /\ \A k \in DOMAIN op'.ret[1].to_coarsen :
                 /\ ShallCoarsen(op'.ret[1].after_pass_one, op'.ret[1].to_coarsen[k],
                                 op'.args.criterium)
                 /\ ChildrenAmong(op'.ret[1].after_pass_one, op'.ret[1].to_coarsen[k],
                                  op'.ret[1].leaves)
           /\ tree' = CoarsenAll(op'.ret[1].after_pass_one, op'.ret[1].to_coarsen)]_vars

\* a Mesh.refine call has refined nodes in Pass 1 and coarsened a parent in
\* Pass 2, and the leaves of Pass 2 have children of refined nodes among them
C24_Witness ==
    /\ Traced(op)
    /\ err = "none"
    /\ Len(op.ret[1].refined) > 0
    /\ Len(op.ret[1].to_coarsen) > 0
    /\ \E k \in DOMAIN op.ret[1].leaves :
          op.ret[1].after_pass_one[op.ret[1].leaves[k]].parent \in Range(op.ret[1].refined)
    /\ tree # op.ret[1].after_pass_one

----------------------------------------------------------------------------
(* Node.shall_refine and Node.shall_coarsen *)

\* whether the operation was node.shall_refine or node.shall_coarsen
VerdictOf(o, name) == o.name = name /\ "ret" \in DOMAIN o

\* C25: for every node of every tree and every criterion with a deterministic
\* verdict, Node.shall_refine(criterion) and Node.shall_coarsen(criterion) are
\* never both true for the same node in the same tree state: when one of them
\* has returned True, the other one is False on that node, in that tree, with
\* that criterion.
C25_NotBoth ==
    /\ (VerdictOf(op, "shall_refine") /\ op.ret[1])
           => ~ShallCoarsen(tree, op.node, op.args.criterium)
    /\ (VerdictOf(op, "shall_coarsen") /\ op.ret[1])
           => ~ShallRefine(tree, op.node, op.args.criterium)

\* node.shall_coarsen has returned True for a parent of four leaves, with a
\* criterion on the values that rejects it, and the grading would allow
\* refining the node
C25_Witness ==
    /\ VerdictOf(op, "shall_coarsen")
    /\ op.ret[1]
    /\ op.args.criterium.kind = "above"
    /\ ~op.leaf
    /\ ShallRefine(tree, op.node, BypassCriterium)

\* node.shall_refine has returned True for a leaf next to a finer leaf
C25_WitnessRefine ==
    /\ VerdictOf(op, "shall_refine")
    /\ op.ret[1]
    /\ op.leaf
    /\ \E direction \in Direction :
          /\ Neighbor(tree, op.node, direction) # None
          /\ ~IsLeaf(tree, Neighbor(tree, op.node, direction))

----------------------------------------------------------------------------
(* The gradient criteria *)

\* whether eval of a gradient criterium has returned
Evaluated(o) == o.name = "eval" /\ "ret" \in DOMAIN o /\ o.ret # <<>>

\* whether two gradients are the same number
SameGradient(g, h) ==
    \/ g.magnitude2 = RInt(0) /\ h.magnitude2 = RInt(0)
    \/ g = h

\* the relative gradient of the node eval was called on, as eval computes it
\* from the four neighbors
RelativeGradientOf(t, p) ==
    RelativeGradient(GradientMagnitude2(GradientNeighbors(t, p)), t[p].value)

\* C26: GradientRefinementCriterium.eval (and the log-scale variant) returns
\* False when at least one of the four cardinal neighbours of the node is
\* absent, and whenever all four neighbours exist, whatever their values (a
\* value of 0 included), it returns exactly (relative_gradient > threshold)
\* and node.gradient is that relative gradient afterwards.
C26_GradientEval ==
    Evaluated(op) =>
        IF AllNeighborsExist(GradientNeighbors(tree, op.node))
        THEN /\ op.ret[1].verdict
                    = ExceedsThreshold(RelativeGradientOf(tree, op.node), op.args.threshold)
             /\ SameGradient(op.ret[1].gradient, RelativeGradientOf(tree, op.node))
        ELSE ~op.ret[1].verdict

\* the part of C26 about an absent neighbour
C26_AbsentNeighbour ==
    (Evaluated(op) /\ ~AllNeighborsExist(GradientNeighbors(tree, op.node)))
        => ~op.ret[1].verdict /\ ~op.ret[1].assigned

\* C26 for four neighbours none of which has the value 0
C26_NonZeroNeighbours ==
    (Evaluated(op) /\ AllNeighbors(GradientNeighbors(tree, op.node)))
        => /\ op.ret[1].verdict
                  = ExceedsThreshold(RelativeGradientOf(tree, op.node), op.args.threshold)
           /\ op.ret[1].assigned
           /\ op.ret[1].gradient = RelativeGradientOf(tree, op.node)

\* C27: the relative gradient the gradient criterion computes is
\* magnitude / max(|node.value|, 1e-6): it is never negative (also for a node
\* with a negative value), and for a node whose value is 0 with a non-zero
\* gradient magnitude it is magnitude / 1e-6 rather than 0.
C27_RelativeGradient ==
    (Evaluated(op) /\ op.ret[1].assigned) =>
        /\ SameGradient(op.ret[1].gradient,
                        RelativeGradientFloored(
                            GradientMagnitude2(GradientNeighbors(tree, op.node)),
                            tree[op.node].value))
        /\ ~(op.ret[1].gradient.magnitude2 # RInt(0)
                /\ RBelow(op.ret[1].gradient.divisor, RInt(0)))

\* C27 for the nodes with a value of 1e-6 or more
C27_PositiveValue ==
    (Evaluated(op) /\ op.ret[1].assigned
        /\ ~RBelow(tree[op.node].value, Rat(1, 1000000))) =>
        /\ op.ret[1].gradient
               = RelativeGradientFloored(
                     GradientMagnitude2(GradientNeighbors(tree, op.node)),
                     tree[op.node].value)
        /\ RBelow(RInt(0), op.ret[1].gradient.divisor)

\* eval has returned True for a leaf next to the refined leaf
C27_PositiveWitness ==
    /\ Evaluated(op)
    /\ op.ret[1].verdict
    /\ op.leaf
    /\ \E i \in 1..4 : GradientNeighbors(tree, op.node)[i].factor = FinerFactor

\* eval has assigned a negative relative gradient to a node with a negative
\* value
C27_NegativeGradient ==
    /\ Evaluated(op)
    /\ op.ret[1].assigned
    /\ RBelow(tree[op.node].value, RInt(0))
    /\ op.ret[1].gradient.magnitude2 # RInt(0)
    /\ RBelow(op.ret[1].gradient.divisor, RInt(0))

\* the log-scale eval has raised ValueError: log of a number that is not
\* positive
C27_LogDomainError ==
    /\ op.name = "eval"
    /\ err = "ValueError"

----------------------------------------------------------------------------
(* Node.inject *)

\* whether the operation was node.inject(f)
Injected(o) == o.name = "inject" /\ "args" \in DOMAIN o

\* whether q is p or a descendant of p
InSubtree(p, q) == Len(p) <= Len(q) /\ SubSeq(q, 1, Len(p)) = p

\* the value f leaves in the node q of the subtree of p when it is applied
\* once to every node, to a node before its descendants
ValueAfter(f, t, after, p, q) ==
    CASE f.kind = "double"    -> RMul(t[q].value, RInt(2))
      [] f.kind = "mark_leaf" -> IF IsLeaf(t, q) THEN RInt(1) ELSE RInt(0)
      [] f.kind = "count_up"  ->
             IF t[q].parent = None THEN RInt(0)
             ELSE IF q = p THEN RAdd(t[t[q].parent].value, RInt(1))
             ELSE RAdd(after[t[q].parent].value, RInt(1))

\* C28: Mesh.inject(f) / Node.inject(f) applies f exactly once to every node
\* of the subtree, interior nodes as well as leaves, each node before its
\* descendants, and changes the tree structure only through what f does: with
\* an f that assigns node.value, the nodes and all their other fields are as
\* before, a node of the subtree has the value one application of f gives it
\* after its parent got its own, and a node outside keeps its value.
C28_Inject ==
    [][Injected(op') =>
           /\ DOMAIN tree' = DOMAIN tree
           /\ \A q \in DOMAIN tree :
                 /\ [tree'[q] EXCEPT !.value = tree[q].value] = tree[q]
                 /\ tree'[q].value = IF InSubtree(op'.node, q)
                                     THEN ValueAfter(op'.args.f, tree, tree', op'.node, q)
                                     ELSE tree[q].value]_vars

\* node.inject(f) was called on an interior node that is not the root and has
\* grandchildren, with the f that counts up from the parent's value, and
\* has changed values
C28_Witness ==
    /\ Injected(op)
    /\ op.args.f.kind = "count_up"
    /\ op.node # Root
    /\ ~op.leaf
    /\ \E q \in DOMAIN tree : InSubtree(op.node, q) /\ Len(q) = Len(op.node) + 2
    /\ \E q \in DOMAIN tree : ~InSubtree(op.node, q) /\ q # Root
    /\ \A q \in DOMAIN tree :
          (InSubtree(op.node, q) /\ q # op.node)
              => tree[q].value = RAdd(tree[tree[q].parent].value, RInt(1))

----------------------------------------------------------------------------
(* Mesh.create_root *)

\* whether a coordinate of the origin is outside {0, 1}
BadOrigin(origin) ==
    \E i \in 1..3 : origin[i] \notin {0, 1} /\ ~(i = 3 /\ origin[i] = NoZ)

\* whether the operation was mesh.create_root with the origin recorded
RootCreated(o) == o.name = "create_root" /\ "args" \in DOMAIN o

\* C29: Mesh.create_root called with a bad origin (a coordinate outside
\* {0, 1}) fails with an invalid-argument error surfaced to the caller and
\* leaves the mesh's root as it was before the call.
C29_BadOrigin ==
    [][(RootCreated(op') /\ BadOrigin(op'.args.origin))
           => err' = "ValueError" /\ tree' = tree]_vars

\* what Mesh.create_root does with a bad origin: it returns a root with that
\* origin, and the tree the mesh had is gone
C29_BadOriginAccepted ==
    [][(RootCreated(op') /\ BadOrigin(op'.args.origin))
           => /\ err' = "none"
              /\ DOMAIN tree' = {Root}
              /\ tree'[Root].origin = op'.args.origin]_vars

\* Mesh.create_root has replaced a refined root by a root with a bad origin
C29_Replaced ==
    /\ RootCreated(op)
    /\ BadOrigin(op.args.origin)
    /\ err = "none"
    /\ tree[Root].origin = <<2, 0, NoZ>>
    /\ calls = QueryDone

----------------------------------------------------------------------------
(* Pass 1 of Mesh.refine and the nodes it has refined already *)

\* C30: during Mesh.refine no node is destroyed by Pass 1: Node.refine is
\* applied only to nodes that are leaves at the moment of the call, so a node
\* refined earlier in the same pass (through another leaf's buffer) is not
\* refined again, and no existing children or grandchildren are replaced or
\* discarded.
C30_RefineLeavesOnly ==
    [][Traced(op') =>
           /\ op'.ret[1].rerefined = {}
           /\ \A i, j \in DOMAIN op'.ret[1].refined :
                 op'.ret[1].refined[i] = op'.ret[1].refined[j] => i = j]_vars

\* the part of C30 that holds: a buffer node is refined only while it is a
\* leaf, so every node that is refined while it has children is a node of
\* to_refine, refined by the loop that ends Pass 1
C30_BufferRefinesLeaves ==
    [][Traced(op') => op'.ret[1].rerefined \subseteq op'.ret[1].to_refine]_vars

\* a Mesh.refine call has refined a node a second time, in the loop that ends
\* Pass 1
C30_Rerefined ==
    /\ Traced(op)
    /\ err = "none"
    /\ op.ret[1].rerefined # {}
    /\ \E i, j \in DOMAIN op.ret[1].refined :
          i < j /\ op.ret[1].refined[i] = op.ret[1].refined[j]

----------------------------------------------------------------------------
(* Pass 2 of Mesh.refine and the nodes it removes *)

\* the tree at the moment Pass 2 calls coarsen on the k-th parent of
\* to_coarsen
BeforeCoarsen(trace, k) == CoarsenAll(trace.after_pass_one, SubSeq(trace.to_coarsen, 1, k - 1))

\* whether the node has children and all of them are leaves
ParentOfLeaves(t, p) ==
    /\ p \in DOMAIN t
    /\ ~IsLeaf(t, p)
    /\ \A i \in DOMAIN t[p].children : IsLeaf(t, Child(p, t[p].children[i]))

\* C31: Pass 2 of Mesh.refine calls Node.coarsen only on parents all of whose
\* children are leaves at the moment of the call, so a Mesh.refine call never
\* destroys grandchildren through coarsening and lowers the level of any
\* region by at most one: every node Pass 2 removes was a leaf whose parent is
\* in to_coarsen, and every leaf the mesh had before the call is still in the
\* tree or its parent is.
C31_CoarsenLeafParents ==
    [][Traced(op') =>
           /\ \A k \in DOMAIN op'.ret[1].to_coarsen :
                 ParentOfLeaves(BeforeCoarsen(op'.ret[1], k), op'.ret[1].to_coarsen[k])
           /\ \A q \in DOMAIN op'.ret[1].after_pass_one \ DOMAIN tree' :
                 /\ IsLeaf(op'.ret[1].after_pass_one, q)
                 /\ op'.ret[1].after_pass_one[q].parent \in Range(op'.ret[1].to_coarsen)
           /\ \A q \in LeafSet(tree) :
                 q \in DOMAIN tree' \/ tree[q].parent \in DOMAIN tree']_vars

\* a Mesh.refine call has coarsened a parent of four leaves while another
\* node of the mesh keeps its grandchildren
C31_Witness ==
    /\ Traced(op)
    /\ err = "none"
    /\ Len(op.ret[1].to_coarsen) > 0
    /\ \E q \in DOMAIN tree : Len(q) = 3
    /\ \A k \in DOMAIN op.ret[1].to_coarsen : IsLeaf(tree, op.ret[1].to_coarsen[k])

----------------------------------------------------------------------------
(* Node.shall_refine *)

\* the cardinal neighbours of a node that exist
ExistingNeighbors(t, p) ==
    {Neighbor(t, p, direction) : direction \in Direction} \ {None}

\* C32: Node.shall_refine(criterion) is true exactly when criterion.eval(node)
\* is true and no existing cardinal neighbour N of the node satisfies
\* |N.level - (node.level + 1)| > 1, that is, no neighbour is coarser than the
\* node; a node with no parent and an accepting criterion is always eligible.
C32_ShallRefine ==
    VerdictOf(op, "shall_refine") =>
        /\ op.ret[1] = (/\ Eval(op.args.criterium, tree, op.node)
                        /\ \A n \in ExistingNeighbors(tree, op.node) :
                              tree[n].level >= tree[op.node].level)
        /\ (tree[op.node].parent = None /\ Eval(op.args.criterium, tree, op.node))
               => op.ret[1]

\* node.shall_refine has returned False for a leaf that the criterion accepts
\* and that has a coarser neighbour
C32_Witness ==
    /\ VerdictOf(op, "shall_refine")
    /\ ~op.ret[1]
    /\ op.leaf
    /\ Eval(op.args.criterium, tree, op.node)
    /\ \E n \in ExistingNeighbors(tree, op.node) : tree[n].level = tree[op.node].level - 1

\* node.shall_refine has returned True for the refined root
C32_WitnessRoot ==
    /\ VerdictOf(op, "shall_refine")
    /\ op.ret[1]
    /\ op.node = Root
    /\ ~op.leaf

----------------------------------------------------------------------------
(* Node.coarsen on the parents Node.shall_coarsen accepts *)

\* the parents of leaves only that shall_coarsen accepts, in the order of the
\* parents of the leaves
Coarsenable(t, criterium) ==
    LET Accepted(parent) == ParentOfLeaves(t, parent) /\ ShallCoarsen(t, parent, criterium)
    IN  SelectSeq(ParentKeys(t, Leafs(t, Root), {}, <<>>), Accepted)

\* the leaf a and the leaves it shares a face with differ by at most one level
GradedAt(t, a) ==
    \A b \in LeafSet(t) : ShareFace(t, a, b) => Abs(t[a].level - t[b].level) <= 1

\* the tree after P.coarsen() on a graded tree t is graded: P is a leaf now,
\* the other leaves are leaves of t with their levels and cells as in t, and P
\* and the leaves it shares a face with differ by at most one level
GradedAfterCoarsen(t, coarsened, p) ==
    /\ \A q \in LeafSet(coarsened) \ {p} :
          q \in DOMAIN t /\ IsLeaf(t, q) /\ coarsened[q] = t[q]
    /\ GradedAt(coarsened, p)

\* the tree is graded after P.coarsen() for each P of the parents, and after
\* the coarsening of all of them
CoarsenKeepsGrading(t, parents) ==
    /\ \A k \in DOMAIN parents :
          LET coarsened == Coarsen(t, parents[k])
          IN  GradedAfterCoarsen(t, coarsened, parents[k])
    /\ LET coarsened == CoarsenAll(t, parents) IN Graded(coarsened)

\* C33: in a 2:1-graded tree, if P is a non-leaf whose children are all leaves
\* and P.shall_coarsen(criterion) is true, the tree is still 2:1 graded after
\* P.coarsen(), and also after the coarsening of every such P in one batch;
\* checked on the tree Pass 2 of Mesh.refine evaluates shall_coarsen on, for
\* every such parent, for all of them together and for those Pass 2 coarsens.
C33_CoarsenKeepsGrading ==
    (Traced(op) /\ err = "none" /\ Graded(op.ret[1].after_pass_one)) =>
        /\ CoarsenKeepsGrading(op.ret[1].after_pass_one,
                               Coarsenable(op.ret[1].after_pass_one, op.args.criterium))
        /\ Graded(tree)

\* the node has, in some direction, a neighbour of its level whose children
\* on the facing edge are leaves
NextToFiner(t, p) ==
    \E direction \in Direction : FinestNeighborLevel(t, p, direction) = t[p].level + 1

\* on a graded tree shall_coarsen has accepted several parents of leaves, Pass 2
\* has coarsened one that is next to finer leaves, and shall_coarsen has refused
\* a parent of leaves that the criterion rejects
C33_Witness ==
    /\ Traced(op) /\ err = "none" /\ Graded(op.ret[1].after_pass_one)
    /\ Len(Coarsenable(op.ret[1].after_pass_one, op.args.criterium)) >= 2
    /\ \E k \in DOMAIN op.ret[1].to_coarsen :
          NextToFiner(op.ret[1].after_pass_one, op.ret[1].to_coarsen[k])
    /\ \E p \in DOMAIN op.ret[1].after_pass_one :
          /\ ParentOfLeaves(op.ret[1].after_pass_one, p)
          /\ ~Eval(op.args.criterium, op.ret[1].after_pass_one, p)
          /\ ~ShallCoarsen(op.ret[1].after_pass_one, p, op.args.criterium)

----------------------------------------------------------------------------
(* The slopes of the interpolation of Node.refine *)

\* node.refine() without a generator has been called on a node of a 2D mesh
Interpolated(o, t) == o.name = "refine" /\ HasRoot(t) /\ TwoDimensional(t)

\* the y-slope with the orientation (down - up) in every case
SlopeDownUp(t, p) ==
    LET up   == Neighbor(t, p, "UP")
        down == Neighbor(t, p, "DOWN")
    IN  IF up # None /\ down # None
        THEN RDiv(RSub(t[down].value, t[up].value), RInt(2))
        ELSE IF down # None THEN RSub(t[down].value, t[p].value)
        ELSE IF up # None THEN RSub(t[p].value, t[up].value)
        ELSE RInt(0)

\* the y-slope the children of p were interpolated with: the children (0, 0)
\* and (0, 1) lie 1/2 apart in y and the slope is scaled by 0.1
SlopeUsedY(t, p) ==
    RMul(RInt(20), RSub(t[Child(p, <<0, 1, NoZ>>)].value, t[Child(p, <<0, 0, NoZ>>)].value))

\* the x-slope the children of p were interpolated with
SlopeUsedX(t, p) ==
    RMul(RInt(20), RSub(t[Child(p, <<1, 0, NoZ>>)].value, t[Child(p, <<0, 0, NoZ>>)].value))

\* the x-slope with the orientation (right - left) in every case
SlopeRightLeft(t, p) ==
    LET right == Neighbor(t, p, "RIGHT")
        left  == Neighbor(t, p, "LEFT")
    IN  IF right # None /\ left # None
        THEN RDiv(RSub(t[right].value, t[left].value), RInt(2))
        ELSE IF right # None THEN RSub(t[right].value, t[p].value)
        ELSE IF left # None THEN RSub(t[p].value, t[left].value)
        ELSE RInt(0)

\* C34: in interpolating Node.refine the y-slope used for the children has the
\* orientation (down - up) in every case: (down.value - up.value)/2 with both
\* neighbours, down.value - self.value with the DOWN neighbour only,
\* self.value - up.value with the UP neighbour only, 0 with neither.
C34_SlopeDownUp ==
    [][Interpolated(op', tree) =>
           SlopeUsedY(tree', op'.node) = SlopeDownUp(tree, op'.node)]_vars

\* the y-slope is as stated when both neighbours exist and when neither does
C34_CentredSlope ==
    [][(/\ Interpolated(op', tree)
        /\ (Neighbor(tree, op'.node, "UP") = None) = (Neighbor(tree, op'.node, "DOWN") = None))
           => SlopeUsedY(tree', op'.node) = SlopeDownUp(tree, op'.node)]_vars

\* with one of the two neighbours only, the y-slope is the opposite of the one stated
C34_OneSidedOpposite ==
    [][(/\ Interpolated(op', tree)
        /\ (Neighbor(tree, op'.node, "UP") = None) # (Neighbor(tree, op'.node, "DOWN") = None))
           => SlopeUsedY(tree', op'.node)
                  = RSub(RInt(0), SlopeDownUp(tree, op'.node))]_vars

\* the x-slope has the orientation (right - left) in every case
C34_SlopeRightLeft ==
    [][Interpolated(op', tree) =>
           SlopeUsedX(tree', op'.node) = SlopeRightLeft(tree, op'.node)]_vars

----------------------------------------------------------------------------
(* Node.refine keeps the value of the node *)

\* C35: interpolating Node.refine is conservative: the mean of the
\* interpolated child values equals the value the node had before the call,
\* and the node has that value after the call, for any neighbour values
\* (values are exact fractions).
C35_Conservative ==
    [][(op'.name = "refine" /\ HasRoot(tree)) =>
           /\ ChildrenMean(tree', op'.node) = tree[op'.node].value
           /\ tree'[op'.node].value = tree[op'.node].value]_vars

\* node.refine() has given the children of a node different values in x and
\* in y, and the node has their mean
C35_Witness ==
    /\ op.name = "refine"
    /\ HasRoot(tree)
    /\ TwoDimensional(tree)
    /\ SlopeUsedX(tree, op.node) # RInt(0)
    /\ SlopeUsedY(tree, op.node) # RInt(0)
    /\ \E direction \in Direction :
          /\ Neighbor(tree, op.node, direction) # None
          /\ tree[Neighbor(tree, op.node, direction)].level < tree[op.node].level
    /\ tree[op.node].value = ChildrenMean(tree, op.node)

----------------------------------------------------------------------------
(* Node.leafs *)

\* list(node.leafs()) has returned
Enumerated(o) == o.name = "leafs" /\ o.node # None /\ Len(o.ret) = 1

\* the place of a child origin in the fixed order (0,0), (0,1), (1,0), (1,1),
\* and (0,0,0), (0,0,1), ... (1,1,1) in 3D
OriginPlace(origin) ==
    IF IsTriDimensional(origin) THEN 4 * origin[1] + 2 * origin[2] + origin[3]
    ELSE 2 * origin[1] + origin[2]

\* where the paths of two nodes part
PartAt(a, b) ==
    CHOOSE k \in 1..Len(a) : (k > Len(b) \/ a[k] # b[k]) /\ SubSeq(a, 1, k - 1) = SubSeq(b, 1, k - 1)

\* a depth-first visit with the children in the fixed order reaches the leaf a
\* before the leaf b
VisitedBefore(a, b) == OriginPlace(a[PartAt(a, b)]) < OriginPlace(b[PartAt(a, b)])

\* C36: Node.leafs / Mesh.leafs yields every leaf of the subtree exactly once
\* and no non-leaf, in depth-first order with the children of each node visited
\* in the fixed origin order (0,0), (0,1), (1,0), (1,1); two enumerations of an
\* unchanged tree yield the same sequence.
C36_Leafs ==
    [][Enumerated(op') =>
           /\ Range(op'.ret[1])
                 = {q \in DOMAIN tree' : IsPrefix(op'.node, q) /\ IsLeaf(tree', q)}
           /\ \A i, j \in DOMAIN op'.ret[1] :
                 i < j => /\ op'.ret[1][i] # op'.ret[1][j]
                          /\ VisitedBefore(op'.ret[1][i], op'.ret[1][j])
           /\ (Enumerated(op) /\ op.node = op'.node) => op'.ret = op.ret]_vars

\* the leaves of a node below the root have been enumerated, on three levels
C36_Witness ==
    /\ Enumerated(op)
    /\ op.node # Root
    /\ Len(op.ret[1]) >= 7
    /\ \E i, j \in DOMAIN op.ret[1] :
          i < j /\ Len(op.ret[1][i]) > Len(op.ret[1][j])

\* the leaves of the refined root of a 3D mesh have been enumerated
C36_WitnessOctree ==
    /\ Enumerated(op)
    /\ ~TwoDimensional(tree)
    /\ Len(op.ret[1]) = 8

----------------------------------------------------------------------------
(* What Mesh.solve changes *)

\* C37: Mesh.solve changes nothing but the values of leaves: it adds no node
\* to and removes no node from the tree, and leaves every node's level,
\* origin, parent, children and every interior node's value unchanged.
C37_SolveFrame ==
    [][op'.name = "solve" =>
           /\ DOMAIN tree' = DOMAIN tree
           /\ \A q \in DOMAIN tree :
                 /\ tree'[q].level = tree[q].level
                 /\ tree'[q].origin = tree[q].origin
                 /\ tree'[q].absolute_origin = tree[q].absolute_origin
                 /\ tree'[q].parent = tree[q].parent
                 /\ tree'[q].children = tree[q].children
                 /\ ~IsLeaf(tree, q) => tree'[q].value = tree[q].value]_vars

\* Mesh.solve, the first call on a uniform mesh whose nodes had the mean of
\* their children, has left a parent of leaves with a value that is not the
\* mean of its children: leaves have changed and the parent has not
C37_Witness ==
    /\ op.name = "solve"
    /\ err = "none"
    /\ calls = 1
    /\ \E p \in DOMAIN tree :
          /\ ParentOfLeaves(tree, p)
          /\ tree[p].value # ChildrenMean(tree, p)

----------------------------------------------------------------------------
(* Node.neighbor on nodes of the same level *)

\* node.neighbor(direction) has returned
Asked(o) == o.name = "neighbor" /\ Len(o.ret) = 1

OppositeDirection(direction) ==
    CASE direction = "RIGHT" -> "LEFT"
      [] direction = "LEFT"  -> "RIGHT"
      [] direction = "UP"    -> "DOWN"
      [] direction = "DOWN"  -> "UP"

\* C38: neighbour lookup is symmetric on same-level nodes: for any two nodes A
\* and B of the same level in a child-complete tree, A.neighbor(RIGHT) is B if
\* and only if B.neighbor(LEFT) is A, and A.neighbor(DOWN) is B if and only if
\* B.neighbor(UP) is A.
C38_NeighborSymmetric ==
    (Asked(op) /\ ChildComplete(tree)) =>
        \A b \in DOMAIN tree :
            tree[b].level = tree[op.node].level =>
                ((op.ret[1] = b)
                    <=> (Neighbor(tree, b, OppositeDirection(op.args.direction)) = op.node))

\* node.neighbor has returned a node of the level of the node that has another
\* parent, in a tree with a coarser leaf
C38_Witness ==
    /\ Asked(op)
    /\ ChildComplete(tree)
    /\ op.ret[1] # None
    /\ tree[op.ret[1]].level = tree[op.node].level
    /\ tree[op.ret[1]].parent # tree[op.node].parent
    /\ Len(op.node) = 2
    /\ \E q \in LeafSet(tree) : Len(q) = 1

----------------------------------------------------------------------------
(* Mesh.refine called again and again with a criterion that flags every node *)

\* the largest max_depth the calls are made with
MaxConvergeDepth == 3

\* the n of the Mesh.uniform the mesh is built by
ConvergeSides == {1, 2, 4}

\* the calls are counted up to this number
MaxConvergeCalls == 4

\* CustomRefinementCriterium(lambda node: True)
FlagsEveryNode == [kind |-> "always"]

\* Mesh.uniform(n, gen, lx, ly)
InitConverge ==
    /\ \E n \in ConvergeSides, gen \in Generators : tree = UniformResult(n, gen, FALSE).t
    /\ op = Called("uniform", None)
    /\ err = "none"
    /\ calls = 0

\* Mesh.refine(criterium, min_depth, max_depth), with the max_depth of the call
\* before when there was one
ConvergeMeshRefine ==
    /\ \E min_depth \in 0..MaxDepth,
          max_depth \in (IF op.name = "Mesh.refine" THEN {op.args.max_depth}
                         ELSE 0..MaxConvergeDepth) :
          \E r \in {RefineMesh(tree, FlagsEveryNode, min_depth, max_depth)} :
             /\ tree' = r.t
             /\ err' = r.err
             /\ op' = Returned("Mesh.refine", None, FALSE,
                               [criterium |-> FlagsEveryNode, min_depth |-> min_depth,
                                max_depth |-> max_depth],
                               <<RefineTrace(r)>>)
    /\ calls' = IF calls < MaxConvergeCalls THEN calls + 1 ELSE calls

NextConverge == ConvergeMeshRefine

\* a Mesh.refine call as the count of the calls shows it
CountedCall == calls < MaxConvergeCalls /\ calls' = calls + 1

\* the driver calls Mesh.refine again and again: MaxConvergeCalls times at least
SpecConverge == InitConverge /\ [][NextConverge]_vars /\ WF_calls(CountedCall)

\* Mesh.refine has been called and every leaf is at the max_depth of the calls
AllAtMaxDepth ==
    /\ Traced(op)
    /\ LeavesBetween(tree, op.args.max_depth, op.args.max_depth)

\* Mesh.refine has been called and no leaf is deeper than the max_depth of the
\* calls: the mesh Mesh.uniform built had a level of max_depth at most
NotDeeper == Traced(op) /\ LeavesBetween(tree, 0, op.args.max_depth)

----------------------------------------------------------------------------
(* Benchmark: the singleton that times the operations of the mesh            *)
(* SpecBenchmark builds no mesh: tree holds the attributes of the Benchmark *)
(* class and of its instance, and the clock that time.time() reads          *)

\* how many operations one behaviour of SpecBenchmark calls
MaxBenchmarkCalls == 4

\* how long a call takes at most, in ticks of the clock
MaxElapsed == 1

\* the names of the functions wrapped by Benchmark.time
TimedFunctions == {"refine", "solve"}

\* what a wrapped function returns
TimedResults == {1, 3}

\* Benchmark._instance when no instance was made
NoInstance == 0

\* the attribute start of an instance whose __init__ body never ran
NoStart == 0 - 1

\* defaultdict(lambda: (0.0, 0)): the total time and the number of calls
NoTimes == [f \in TimedFunctions |-> <<0, 0>>]

\* the class as it is loaded: _instance = None, _initialized = False
BenchmarkClass ==
    [_instance |-> NoInstance, _initialized |-> FALSE, created |-> 0,
     _func_times |-> NoTimes, start |-> NoStart, now |-> 0]

\* Benchmark.__new__: the instance of the class, created when there is none
BenchmarkNew(b) ==
    IF b._instance = NoInstance
    THEN [b EXCEPT !._instance = b.created + 1, !.created = b.created + 1]
    ELSE b

\* Benchmark.__init__ without the test of _initialized
BenchmarkInitAlways(b) ==
    [b EXCEPT !._func_times = NoTimes, !.start = b.now, !._initialized = TRUE]

\* Benchmark.__init__
BenchmarkInit(b) ==
    IF ~b._initialized
    THEN [b EXCEPT !._func_times = NoTimes, !.start = b.now, !._initialized = TRUE]
    ELSE b

\* the wrapper of Benchmark.time around a call of f that took `elapsed`
TimeWrapper(b, f, elapsed) ==
    [b EXCEPT !._func_times[f] = <<@[1] + elapsed, @[2] + 1>>, !.now = @ + elapsed]

\* Benchmark.reset
BenchmarkReset(b) == [b EXCEPT !._func_times = NoTimes, !.start = b.now]

InitBenchmark ==
    /\ tree = BenchmarkClass
    /\ op = Called("import", None)
    /\ err = "none"
    /\ calls = 0

\* Benchmark(): __new__, then __init__ on what it returned
BenchmarkConstruct ==
    /\ calls < MaxBenchmarkCalls
    /\ \E elapsed \in 0..MaxElapsed :
          \E b \in {BenchmarkInit(BenchmarkNew([tree EXCEPT !.now = @ + elapsed]))} :
             /\ tree' = b
             /\ op' = Returned("Benchmark", None, FALSE, <<>>, <<b._instance>>)
    /\ err' = "none"
    /\ calls' = calls + 1

\* a call of a function wrapped by benchmark.time: the function returns a
\* result, or raises and the wrapper with it
BenchmarkTimedCall ==
    /\ calls < MaxBenchmarkCalls
    /\ tree._instance # NoInstance
    /\ \E f \in TimedFunctions, elapsed \in 0..MaxElapsed :
          \/ \E result \in TimedResults :
                /\ tree' = TimeWrapper(tree, f, elapsed)
                /\ op' = Returned("time", None, FALSE, [f |-> f, result |-> result],
                                  <<result>>)
                /\ err' = "none"
          \/ /\ tree' = [tree EXCEPT !.now = @ + elapsed]
             /\ op' = Returned("time", None, FALSE, [f |-> f], <<>>)
             /\ err' = "ValueError"
    /\ calls' = calls + 1

\* benchmark.reset()
BenchmarkResetCall ==
    /\ calls < MaxBenchmarkCalls
    /\ tree._instance # NoInstance
    /\ \E elapsed \in 0..MaxElapsed :
          tree' = BenchmarkReset([tree EXCEPT !.now = @ + elapsed])
    /\ op' = Called("reset", None)
    /\ err' = "none"
    /\ calls' = calls + 1

NextBenchmark ==
    \/ BenchmarkConstruct
    \/ BenchmarkTimedCall
    \/ BenchmarkResetCall

SpecBenchmark == InitBenchmark /\ [][NextBenchmark]_vars

====
